---------------------------- MODULE Spec2Model ----------------------------
(***************************************************************************)
(* A model of the KCP control block of src/src/kcp.rs (struct Kcp<W>):     *)
(* its queues, cursors and timers, the byte-level segment codec, and the   *)
(* operations send, recv, input, update, flush, setmtu and wndsize.        *)
(* Every operation is an operator on the control-block record, computed    *)
(* as the code computes it; the specifications below compose them.         *)
(***************************************************************************)
EXTENDS Integers, Sequences, FiniteSets, TLC

(***************************************************************************)
(* Program constants (src/src/kcp.rs:6-24).                                *)
(***************************************************************************)
IKCP_RTO_NDL == 30
IKCP_RTO_MIN == 100
IKCP_RTO_DEF == 200
IKCP_RTO_MAX == 60000
IKCP_CMD_PUSH == 81
IKCP_CMD_ACK == 82
IKCP_CMD_WASK == 83
IKCP_CMD_WINS == 84
IKCP_ASK_SEND == 1
IKCP_ASK_TELL == 2
IKCP_WND_SND == 32
IKCP_WND_RCV == 128
IKCP_MTU_DEF == 1400
IKCP_INTERVAL == 100
IKCP_OVERHEAD == 24
IKCP_THRESH_INIT == 2
IKCP_THRESH_MIN == 2
IKCP_PROBE_INIT == 7000
IKCP_PROBE_LIMIT == 120000

\* The smallest mtu ikcp_setmtu accepts (kcp.rs:871).
MTU_MIN == 50

\* The largest fragment count ikcp_send accepts (kcp.rs:324).
FRG_MAX == 255

\* The clock distance beyond which ikcp_update resynchronises (kcp.rs:582).
SLAP_MAX == 10000

\* Capacity of the staging buffer, set once at creation (kcp.rs:218).
BufferCapacity == (IKCP_MTU_DEF + IKCP_OVERHEAD) * 3

(***************************************************************************)
(* Arithmetic helpers.                                                     *)
(***************************************************************************)
Min(a, b) == IF a < b THEN a ELSE b

Max(a, b) == IF a > b THEN a ELSE b

\* A u32 is held as the integer nearest to 0 that equals it modulo 2^32: x
\* itself below 2^31, x - 2^32 from there on, so that a clock reading
\* shortly before the wrap is a small negative number.  The model checker's
\* integers end at 2^31 - 1; every cursor, timestamp and window of the
\* model stays within a few hundred thousand of 0 or of the wrap, so the
\* wrapping sum or product of two u32 is the plain one and nothing is
\* reduced here.  (A build with overflow checks panics where a sum passes
\* 2^32 instead of wrapping.)
U32(x) == x

\* A clamp without its upper end.
IboundNoUpper(lower, middle, upper) == IF lower > middle THEN lower ELSE middle

\* fn ibound (kcp.rs:946).
ibound(lower, middle, upper) == Min(Max(lower, middle), upper)

\* Stands for a difference of at least 2^31.
Far == 2147483647

\* A difference taken modulo 2^32 and read as a signed 32-bit number.
diffWrapping(later, earlier) == later - earlier

\* fn diff (kcp.rs:951): both operands widened to i64, then subtracted; no
\* reduction modulo 2^32.  Two readings on the same side of the wrap differ
\* by their plain difference; with the wrap between them the i64 difference
\* is the modular one plus or minus 2^32, beyond every threshold it is
\* compared with, and is held at Far.
diff(later, earlier) ==
  IF (later < 0) = (earlier < 0) THEN later - earlier
  ELSE IF later < 0 THEN Far ELSE -Far

\* Bitwise or / and of the two probe flags, probe being in 0..3.
ProbeOr(p, flag) == IF (p \div flag) % 2 = 1 THEN p ELSE p + flag

ProbeHas(p, flag) == (p \div flag) % 2 = 1

(***************************************************************************)
(* The segment codec: little-endian fields, 24-byte header, then data.     *)
(***************************************************************************)
put_u16_le(n) == << n % 256, (n \div 256) % 256 >>

put_u32_le(n) ==
  << n % 256, (n \div 256) % 256, (n \div 65536) % 256, (n \div 16777216) % 256 >>

get_u16_le(b, off) == b[off + 1] + 256 * b[off + 2]

get_u32_le(b, off) ==
  b[off + 1] + 256 * b[off + 2] + 65536 * b[off + 3] + 16777216 * b[off + 4]

\* Segment::default() (kcp.rs:26): every field zero, no data.
DefaultSegment ==
  [conv |-> 0, cmd |-> 0, frg |-> 0, wnd |-> 0, ts |-> 0, sn |-> 0, una |-> 0,
   len |-> 0, resendts |-> 0, rto |-> 0, fastack |-> 0, xmit |-> 0,
   data |-> << >>]

\* Segment::encode (kcp.rs:69-79): the len FIELD is written, then the data.
encode(seg) ==
  put_u32_le(seg.conv) \o << seg.cmd, seg.frg >> \o put_u16_le(seg.wnd)
    \o put_u32_le(seg.ts) \o put_u32_le(seg.sn) \o put_u32_le(seg.una)
    \o put_u32_le(seg.len) \o seg.data

\* A header reader that reports the conv field as 1 whatever the bytes say.
DecodeHeaderAnyConv(b, off) ==
  [conv |-> 1, cmd |-> b[off + 5], frg |-> b[off + 6],
   wnd |-> get_u16_le(b, off + 6), ts |-> get_u32_le(b, off + 8),
   sn |-> get_u32_le(b, off + 12), una |-> get_u32_le(b, off + 16),
   len |-> get_u32_le(b, off + 20)]

\* The header fields ikcp_input reads at offset off (kcp.rs:365-377).
DecodeHeader(b, off) ==
  [conv |-> get_u32_le(b, off), cmd |-> b[off + 5], frg |-> b[off + 6],
   wnd |-> get_u16_le(b, off + 6), ts |-> get_u32_le(b, off + 8),
   sn |-> get_u32_le(b, off + 12), una |-> get_u32_le(b, off + 16),
   len |-> get_u32_le(b, off + 20)]

(***************************************************************************)
(* Kcp::ickp_create (kcp.rs:186-224).                                      *)
(***************************************************************************)
ickp_create(conv) ==
  [conv |-> conv, mtu |-> IKCP_MTU_DEF, mss |-> IKCP_MTU_DEF - IKCP_OVERHEAD,
   snd_una |-> 0, snd_nxt |-> 0, rcv_nxt |-> 0, ssthresh |-> IKCP_THRESH_INIT,
   rx_rttval |-> 0, rx_srtt |-> 0, rx_rto |-> IKCP_RTO_DEF,
   rx_minrto |-> IKCP_RTO_MIN, snd_wnd |-> IKCP_WND_SND,
   rcv_wnd |-> IKCP_WND_RCV, rmt_wnd |-> IKCP_WND_RCV, cwnd |-> 0,
   probe |-> 0, current |-> 0, interval |-> IKCP_INTERVAL,
   ts_flush |-> IKCP_INTERVAL, xmit |-> 0, nodelay |-> FALSE,
   updated |-> FALSE, ts_probe |-> 0, probe_wait |-> 0, incr |-> 0,
   snd_queue |-> << >>, rcv_queue |-> << >>, snd_buf |-> << >>,
   rcv_buf |-> << >>, acklist |-> << >>, fastresend |-> 0,
   nocwnd |-> FALSE, stream |-> FALSE]

(***************************************************************************)
(* ikcp_peeksize (kcp.rs:603-626).                                         *)
(***************************************************************************)
\* Number of leading segments up to and including the first with frg = 0
\* (all of them when none has frg = 0): the loops at kcp.rs:245 and 618.
MessageSpan(q) ==
  LET last == {i \in 1..Len(q) : q[i].frg = 0}
  IN IF last = {} THEN Len(q)
     ELSE CHOOSE i \in last : \A j \in last : i <= j

\* The sum of the len fields of q[lo..hi], by halves.
RECURSIVE SumRange(_, _, _)
SumRange(q, lo, hi) ==
  IF lo > hi THEN 0
  ELSE IF lo = hi THEN q[lo].len
  ELSE SumRange(q, lo, (lo + hi) \div 2) + SumRange(q, (lo + hi) \div 2 + 1, hi)

SumLen(q, n) == SumRange(q, 1, n)

\* The data of q[lo..hi] written one after the other, by halves.
RECURSIVE ConcatRange(_, _, _)
ConcatRange(q, lo, hi) ==
  IF lo > hi THEN << >>
  ELSE IF lo = hi THEN q[lo].data
  ELSE ConcatRange(q, lo, (lo + hi) \div 2)
         \o ConcatRange(q, (lo + hi) \div 2 + 1, hi)

ConcatData(q, n) == ConcatRange(q, 1, n)

\* (seg.frg + 1) is computed in u8 (kcp.rs:613).
ikcp_peeksize(k) ==
  IF k.rcv_queue = << >> THEN [ok |-> FALSE, val |-> -1]
  ELSE IF Head(k.rcv_queue).frg = 0
    THEN [ok |-> TRUE, val |-> Head(k.rcv_queue).len]
  ELSE IF Len(k.rcv_queue) < (Head(k.rcv_queue).frg + 1) % 256
    THEN [ok |-> FALSE, val |-> -1]
  ELSE [ok |-> TRUE, val |-> SumLen(k.rcv_queue, MessageSpan(k.rcv_queue))]

(***************************************************************************)
(* Promotion rcv_buf -> rcv_queue (kcp.rs:261-279 and 548-564).            *)
(***************************************************************************)
\* How many leading segments of buf move: each must carry sn = rcv_nxt while
\* the queue is below rcv_wnd.
\* A promotion that does not look at the room left in rcv_queue.
PromoteCountUnbounded(buf, nxt, nrcv_que, rcv_wnd) ==
  LET moves(n) == \A j \in 1..n : buf[j].sn = nxt + (j - 1)
  IN CHOOSE n \in 0..Len(buf) :
       moves(n) /\ (n < Len(buf) => ~moves(n + 1))

PromoteCount(buf, nxt, nrcv_que, rcv_wnd) ==
  LET moves(n) == \A j \in 1..n :
                    buf[j].sn = nxt + (j - 1) /\ nrcv_que + (j - 1) < rcv_wnd
  IN CHOOSE n \in 0..Len(buf) :
       moves(n) /\ (n < Len(buf) => ~moves(n + 1))

MoveToRcvQueue(k) ==
  LET index == PromoteCount(k.rcv_buf, k.rcv_nxt, Len(k.rcv_queue), k.rcv_wnd)
  IN [k EXCEPT !.rcv_nxt = U32(k.rcv_nxt + index),
                 !.rcv_queue = k.rcv_queue \o SubSeq(k.rcv_buf, 1, index),
                 !.rcv_buf = SubSeq(k.rcv_buf, index + 1, Len(k.rcv_buf))]

(***************************************************************************)
(* ikcp_recv (kcp.rs:227-289).  buflen is the length of the caller's       *)
(* buffer; data is what the call wrote into it.                            *)
(***************************************************************************)
ikcp_recv(k, buflen) ==
  LET peek == ikcp_peeksize(k)
      index == MessageSpan(k.rcv_queue)
      bytes == ConcatData(k.rcv_queue, index)
      recover == Len(k.rcv_queue) >= k.rcv_wnd
      popped == [k EXCEPT !.rcv_queue = SubSeq(k.rcv_queue, index + 1, Len(k.rcv_queue))]
      moved == MoveToRcvQueue(popped)
      told == IF Len(moved.rcv_queue) < moved.rcv_wnd /\ recover
              THEN [moved EXCEPT !.probe = ProbeOr(moved.probe, IKCP_ASK_TELL)]
              ELSE moved
  IN IF k.rcv_queue = << >> \/ ~peek.ok \/ peek.val > buflen \/ Len(bytes) > buflen
     THEN [k |-> k, ok |-> FALSE, val |-> -1, data |-> << >>]
     ELSE [k |-> told, ok |-> TRUE, val |-> Len(bytes), data |-> bytes]

(***************************************************************************)
(* ikcp_send (kcp.rs:292-347).                                             *)
(***************************************************************************)
\* A fragmenter that numbers the fragments upward, 1 .. count, instead of
\* count-1 .. 0: the fragmentation law has to tell it from the loop below.
NewSegmentCountingUp(rest, mss, count, i, stream) ==
  LET from == (i - 1) * mss + 1
      to == Min(i * mss, Len(rest))
  IN [DefaultSegment EXCEPT !.len = to - from + 1,
                            !.data = SubSeq(rest, from, to),
                            !.frg = IF ~stream THEN i ELSE 0]

\* The i-th (1-based) new segment of the loop at kcp.rs:332-345.
NewSegment(rest, mss, count, i, stream) ==
  LET from == (i - 1) * mss + 1
      to == Min(i * mss, Len(rest))
  IN [DefaultSegment EXCEPT !.len = to - from + 1,
                            !.data = SubSeq(rest, from, to),
                            !.frg = IF ~stream THEN count - i ELSE 0]

ikcp_send(k, buf) ==
  LET n == Len(buf)
      q == k.snd_queue
      \* 1. stream mode tops up the tail segment (kcp.rs:300-315).
      topup == k.stream /\ q # << >> /\ Len(q[Len(q)].data) < k.mss
      l == IF topup THEN Len(q[Len(q)].data) ELSE 0
      new_len == Min(l + n, k.mss)
      taken == IF topup THEN new_len - l ELSE 0
      q1 == IF topup
            THEN [q EXCEPT ![Len(q)] =
                    [@ EXCEPT !.data = @ \o SubSeq(buf, 1, taken), !.frg = 0]]
            ELSE q
      rest == SubSeq(buf, taken + 1, n)
      \* 2. fragment count of what remains (kcp.rs:318-322).
      count == IF Len(rest) <= k.mss THEN 1
               ELSE (Len(rest) + k.mss - 1) \div k.mss
      segs == [i \in 1..count |-> NewSegment(rest, k.mss, count, i, k.stream)]
  IN IF n = 0 THEN [k |-> k, ok |-> FALSE, val |-> -1]
     ELSE IF topup /\ Len(rest) = 0
       THEN [k |-> [k EXCEPT !.snd_queue = q1], ok |-> TRUE, val |-> 1]
     ELSE IF count > FRG_MAX
       THEN [k |-> [k EXCEPT !.snd_queue = q1], ok |-> FALSE, val |-> -1]
     ELSE [k |-> [k EXCEPT !.snd_queue = q1 \o segs], ok |-> TRUE, val |-> n]

(***************************************************************************)
(* Acknowledgement bookkeeping on snd_buf.                                 *)
(***************************************************************************)
\* A shrink that leaves snd_una where it was.
ShrinkBufKeeps(k) == k

\* ikcp_shrink_buf (kcp.rs:596-601).
ikcp_shrink_buf(k) ==
  [k EXCEPT !.snd_una = IF k.snd_buf # << >> THEN Head(k.snd_buf).sn ELSE k.snd_nxt]

\* Leading segments with sn < una (the loop at kcp.rs:480-486).
UnaCount(buf, una) ==
  LET below(n) == \A j \in 1..n : una > buf[j].sn
  IN CHOOSE n \in 0..Len(buf) : below(n) /\ (n < Len(buf) => ~below(n + 1))

\* ikcp_parse_una (kcp.rs:478-491).
ikcp_parse_una(k, una) ==
  [k EXCEPT !.snd_buf = SubSeq(k.snd_buf, UnaCount(k.snd_buf, una) + 1, Len(k.snd_buf))]

\* The loop of kcp.rs:497-503 reaches index i when no earlier segment broke it.
FastackReaches(buf, sn, i) == \A j \in 1..i : ~(sn < buf[j].sn)

\* A skip count that counts every segment of snd_buf, whatever its sn.
ParseFastackAll(k, sn) ==
  IF sn < k.snd_una \/ sn >= k.snd_nxt THEN k
  ELSE [k EXCEPT !.snd_buf =
          [i \in 1..Len(k.snd_buf) |->
             [k.snd_buf[i] EXCEPT !.fastack = U32(@ + 1)]]]

\* ikcp_parse_fastack (kcp.rs:493-504).
ikcp_parse_fastack(k, sn) ==
  IF sn < k.snd_una \/ sn >= k.snd_nxt THEN k
  ELSE [k EXCEPT !.snd_buf =
          [i \in 1..Len(k.snd_buf) |->
             IF FastackReaches(k.snd_buf, sn, i) /\ sn # k.snd_buf[i].sn
             THEN [k.snd_buf[i] EXCEPT !.fastack = U32(@ + 1)]
             ELSE k.snd_buf[i]]]

\* Index of the segment the loop of kcp.rs:513-520 removes, 0 when none.
\* Going up from i, the loop ends at the first segment whose sn is not
\* below the acknowledged one.
AckIndex(buf, sn, i) ==
  LET stop == {j \in i..Len(buf) : sn <= buf[j].sn}
      at == CHOOSE j \in stop : \A l \in stop : j <= l
  IN IF stop = {} THEN 0
     ELSE IF sn = buf[at].sn THEN at ELSE 0

RemoveAt(s, i) == SubSeq(s, 1, i - 1) \o SubSeq(s, i + 1, Len(s))

\* ikcp_parse_ack (kcp.rs:509-521).
ikcp_parse_ack(k, sn) ==
  IF sn < k.snd_una \/ sn >= k.snd_nxt THEN k
  ELSE LET i == AckIndex(k.snd_buf, sn, 1)
       IN IF i = 0 THEN k ELSE [k EXCEPT !.snd_buf = RemoveAt(k.snd_buf, i)]

\* ikcp_update_ack (kcp.rs:629-649).
ikcp_update_ack(k, rtt) ==
  LET delta == IF rtt > k.rx_srtt THEN rtt - k.rx_srtt ELSE k.rx_srtt - rtt
      rttval == IF k.rx_srtt = 0 THEN rtt \div 2
                ELSE (3 * k.rx_rttval + delta) \div 4
      srtt == IF k.rx_srtt = 0 THEN rtt
              ELSE Max((7 * k.rx_srtt + rtt) \div 8, 1)
      rto == srtt + Max(k.interval, 4 * rttval)
  IN [k EXCEPT !.rx_rttval = rttval, !.rx_srtt = srtt,
                 !.rx_rto = ibound(k.rx_minrto, rto, IKCP_RTO_MAX)]

(***************************************************************************)
(* ikcp_parse_data (kcp.rs:523-565).                                       *)
(***************************************************************************)
\* The reverse scan of kcp.rs:531-540: [repeat, index].
\* Coming down from index, the scan stops at the first segment whose sn is
\* not above the new one: the last such segment of buf[1..index].
ReverseScan(buf, sn, index) ==
  LET stop == {i \in 1..index : sn >= buf[i].sn}
      at == CHOOSE i \in stop : \A j \in stop : j <= i
  IN IF stop = {} THEN [repeat |-> FALSE, index |-> 0]
     ELSE [repeat |-> sn = buf[at].sn, index |-> at]

\* An insertion that puts the new segment at the end, wherever the scan
\* stopped.
InsertAtEnd(s, index, e) == Append(s, e)

InsertAt(s, index, e) == SubSeq(s, 1, index) \o << e >> \o SubSeq(s, index + 1, Len(s))

ikcp_parse_data(k, newseg) ==
  LET sn == newseg.sn
      scan == ReverseScan(k.rcv_buf, sn, Len(k.rcv_buf))
      placed == IF ~scan.repeat
                THEN [k EXCEPT !.rcv_buf = InsertAt(k.rcv_buf, scan.index, newseg)]
                ELSE k
  IN IF sn >= U32(k.rcv_nxt + k.rcv_wnd) \/ sn < k.rcv_nxt THEN k
     ELSE MoveToRcvQueue(placed)

(***************************************************************************)
(* ikcp_input (kcp.rs:352-474).                                            *)
(***************************************************************************)
ValidCmd(cmd) ==
  cmd \in {IKCP_CMD_PUSH, IKCP_CMD_ACK, IKCP_CMD_WASK, IKCP_CMD_WINS}

\* The ACK branch (kcp.rs:395-409), without the maxack bookkeeping.
InputAck(k, h) ==
  LET rtt == diff(k.current, h.ts)
      sampled == IF rtt >= 0 THEN ikcp_update_ack(k, rtt) ELSE k
  IN ikcp_shrink_buf(ikcp_parse_ack(sampled, h.sn))

\* A PUSH whose payload is read from the datagram (kcp.rs:417-434).
PushTaken(k, h) == h.sn < U32(k.rcv_nxt + k.rcv_wnd) /\ h.sn >= k.rcv_nxt

\* The PUSH branch (kcp.rs:412-435); payload holds the len bytes after the header.
InputPush(k, h, payload) ==
  IF h.sn < U32(k.rcv_nxt + k.rcv_wnd)
  THEN LET acked == [k EXCEPT !.acklist = Append(@, << h.sn, h.ts >>)]
           seg == [DefaultSegment EXCEPT !.conv = h.conv, !.cmd = h.cmd,
                     !.frg = h.frg, !.wnd = h.wnd, !.ts = h.ts, !.sn = h.sn,
                     !.una = h.una, !.len = h.len, !.data = payload]
       IN IF h.sn >= k.rcv_nxt THEN ikcp_parse_data(acked, seg) ELSE acked
  ELSE k

\* How far the cursor moves over one segment: the 24 header bytes, and the
\* payload only where read_exact consumed it (kcp.rs:429).
Advance(k, h) ==
  IF h.cmd = IKCP_CMD_PUSH /\ PushTaken(k, h) THEN IKCP_OVERHEAD + h.len
  ELSE IKCP_OVERHEAD

\* An iteration that takes the peer's una for snd_una as it stands, instead
\* of deriving snd_una from what is left in snd_buf.
InputSegmentTrustsUna(k, h, payload) ==
  LET k1 == [ikcp_parse_una([k EXCEPT !.rmt_wnd = h.wnd], h.una)
               EXCEPT !.snd_una = h.una]
  IN IF h.cmd = IKCP_CMD_ACK THEN ikcp_parse_ack(k1, h.sn)
     ELSE IF h.cmd = IKCP_CMD_PUSH THEN InputPush(k1, h, payload)
     ELSE k1

\* One iteration of the while loop (kcp.rs:392-443) on a validated header.
InputSegment(k, h, payload) ==
  LET k1 == ikcp_shrink_buf(ikcp_parse_una([k EXCEPT !.rmt_wnd = h.wnd], h.una))
  IN IF h.cmd = IKCP_CMD_ACK THEN InputAck(k1, h)
     ELSE IF h.cmd = IKCP_CMD_PUSH THEN InputPush(k1, h, payload)
     ELSE IF h.cmd = IKCP_CMD_WASK
       THEN [k1 EXCEPT !.probe = ProbeOr(@, IKCP_ASK_TELL)]
     ELSE k1

\* The while loop of kcp.rs:364-444 from cursor position pos.
RECURSIVE InputLoop(_, _, _, _, _)
InputLoop(k, b, pos, flag, maxack) ==
  LET remaining == Len(b) - pos
      h == DecodeHeader(b, pos)
      payload == SubSeq(b, pos + IKCP_OVERHEAD + 1, pos + IKCP_OVERHEAD + h.len)
  IN IF remaining < IKCP_OVERHEAD
       THEN [k |-> k, ok |-> TRUE, pos |-> pos, flag |-> flag, maxack |-> maxack]
     ELSE IF h.conv # k.conv \/ remaining - IKCP_OVERHEAD < h.len \/ ~ValidCmd(h.cmd)
       THEN [k |-> k, ok |-> FALSE, pos |-> pos, flag |-> flag, maxack |-> maxack]
     ELSE LET next == InputSegment(k, h, payload)
              nflag == flag \/ h.cmd = IKCP_CMD_ACK
              nmaxack == IF h.cmd # IKCP_CMD_ACK THEN maxack
                         ELSE IF ~flag THEN h.sn ELSE Max(maxack, h.sn)
          IN IF next.conv = k.conv /\ nmaxack >= 0 /\ nflag \in BOOLEAN
             THEN InputLoop(next, b, pos + Advance(k, h), nflag, nmaxack)
             ELSE [k |-> k, ok |-> FALSE, pos |-> pos, flag |-> flag, maxack |-> maxack]

\* A growth step that does not ask whether snd_una advanced: every input
\* opens the window, a repeated ACK included.
GrowCwndAlways(k, old_una) ==
  IF k.cwnd < k.rmt_wnd
  THEN [k EXCEPT !.cwnd = U32(k.cwnd + 1), !.incr = U32(k.incr + k.mss)]
  ELSE k

\* The congestion-window growth at the end of input (kcp.rs:451-472).
GrowCwnd(k, old_una) ==
  LET mss == k.mss
      slow == k.cwnd < k.ssthresh
      incr0 == IF slow THEN U32(k.incr + mss) ELSE Max(k.incr, mss)
      incr1 == IF slow THEN incr0
               ELSE U32(incr0 + (mss * mss) \div incr0 + (mss \div 16))
      cwnd1 == IF slow THEN U32(k.cwnd + 1)
               ELSE IF (k.cwnd + 1) * mss <= incr1 THEN U32(k.cwnd + 1)
               ELSE k.cwnd
  IN IF k.snd_una > old_una /\ k.cwnd < k.rmt_wnd
     THEN IF cwnd1 > k.rmt_wnd
          THEN [k EXCEPT !.cwnd = k.rmt_wnd, !.incr = U32(k.rmt_wnd * mss)]
          ELSE [k EXCEPT !.cwnd = cwnd1, !.incr = incr1]
     ELSE k

\* ikcp_input: [k, ok, val], val being the bytes consumed on success.
ikcp_input(k, b) ==
  LET r == InputLoop(k, b, 0, FALSE, 0)
      fast == IF r.flag THEN ikcp_parse_fastack(r.k, r.maxack) ELSE r.k
  IN IF Len(b) < IKCP_OVERHEAD THEN [k |-> k, ok |-> FALSE, val |-> -1]
     ELSE IF ~r.ok THEN [k |-> r.k, ok |-> FALSE, val |-> -1]
     ELSE [k |-> GrowCwnd(fast, k.snd_una), ok |-> TRUE, val |-> r.pos]

(***************************************************************************)
(* ikcp_flush (kcp.rs:652-854).  The staging buffer is empty between       *)
(* calls, so it is local to the flush: st = [buffer, out], out being the   *)
(* buffers handed to the egress sink, in order.                            *)
(***************************************************************************)
\* ikcp_wnd_unused (kcp.rs:937-942), cast to u16.
ikcp_wnd_unused(k) ==
  IF Len(k.rcv_queue) < k.rcv_wnd THEN (k.rcv_wnd - Len(k.rcv_queue)) % 65536 ELSE 0

\* output.write_all(&buffer): write_all hands nothing to the sink for an
\* empty buffer.
WriteAll(out, buffer) == IF buffer = << >> THEN out ELSE Append(out, buffer)

\* The test before every encode (kcp.rs:666, 705, 717, 809): the FREE space
\* of the staging buffer plus the bytes to add, against mtu.
MustShip(buffer, need, mtu) == (BufferCapacity - Len(buffer)) + need > mtu

\* Ship-and-clear when the test says so, then encode seg into the buffer.
Stage(st, seg, need, mtu) ==
  IF MustShip(st.buffer, need, mtu)
  THEN [buffer |-> encode(seg), out |-> WriteAll(st.out, st.buffer)]
  ELSE [buffer |-> st.buffer \o encode(seg), out |-> st.out]

\* The ACK pass (kcp.rs:665-677) over acklist[lo..hi]: the first half, then
\* the second half from where the first left the staging buffer.
RECURSIVE FlushAcks(_, _, _, _, _, _)
FlushAcks(st, seg, acklist, lo, hi, mtu) ==
  IF lo > hi THEN st
  ELSE IF lo = hi
    THEN Stage(st, [seg EXCEPT !.sn = acklist[lo][1], !.ts = acklist[lo][2]],
               IKCP_OVERHEAD, mtu)
  ELSE LET mid == (lo + hi) \div 2
           left == FlushAcks(st, seg, acklist, lo, mid, mtu)
       IN IF Len(left.buffer) >= 0
          THEN FlushAcks(left, seg, acklist, mid + 1, hi, mtu)
          ELSE st

\* Probe scheduling that asks again without lengthening the wait.
ProbeScheduleNoBackoff(k) ==
  IF k.rmt_wnd = 0
  THEN IF k.probe_wait = 0
       THEN [k EXCEPT !.probe_wait = IKCP_PROBE_INIT,
                      !.ts_probe = U32(k.current + IKCP_PROBE_INIT)]
       ELSE IF diff(k.current, k.ts_probe) >= 0
         THEN [k EXCEPT !.ts_probe = U32(k.current + k.probe_wait),
                        !.probe = ProbeOr(@, IKCP_ASK_SEND)]
         ELSE k
  ELSE [k EXCEPT !.ts_probe = 0, !.probe_wait = 0]

\* Window-probe scheduling (kcp.rs:680-700).
ProbeSchedule(k) ==
  IF k.rmt_wnd = 0
  THEN IF k.probe_wait = 0
       THEN [k EXCEPT !.probe_wait = IKCP_PROBE_INIT,
                      !.ts_probe = U32(k.current + IKCP_PROBE_INIT)]
       ELSE IF diff(k.current, k.ts_probe) >= 0
         THEN LET w0 == Max(k.probe_wait, IKCP_PROBE_INIT)
                  w1 == Min(U32(w0 + w0 \div 2), IKCP_PROBE_LIMIT)
              IN [k EXCEPT !.probe_wait = w1, !.ts_probe = U32(k.current + w1),
                           !.probe = ProbeOr(@, IKCP_ASK_SEND)]
         ELSE k
  ELSE [k EXCEPT !.ts_probe = 0, !.probe_wait = 0]

\* Emission of WASK and WINS (kcp.rs:703-724).
FlushProbes(st, seg, probe, mtu) ==
  LET s1 == IF ProbeHas(probe, IKCP_ASK_SEND)
            THEN Stage(st, [seg EXCEPT !.cmd = IKCP_CMD_WASK], IKCP_OVERHEAD, mtu)
            ELSE st
  IN IF ProbeHas(probe, IKCP_ASK_TELL)
     THEN Stage(s1, [seg EXCEPT !.cmd = IKCP_CMD_WINS], IKCP_OVERHEAD, mtu)
     ELSE s1

\* An effective window that leaves snd_wnd out.
EffectiveCwndNoSndWnd(k) ==
  IF ~k.nocwnd THEN Min(k.cwnd, k.rmt_wnd) ELSE k.rmt_wnd

\* The effective window of this flush (kcp.rs:729-732).
EffectiveCwnd(k) ==
  IF ~k.nocwnd THEN Min(k.cwnd, Min(k.snd_wnd, k.rmt_wnd))
  ELSE Min(k.snd_wnd, k.rmt_wnd)

\* Move segments from snd_queue to snd_buf (kcp.rs:735-753).
RECURSIVE Promote(_, _, _)
Promote(k, cwnd, wnd) ==
  IF diff(k.snd_nxt, U32(k.snd_una + cwnd)) < 0 /\ k.snd_queue # << >>
  THEN LET newseg == [Head(k.snd_queue) EXCEPT
                        !.conv = k.conv, !.cmd = IKCP_CMD_PUSH, !.wnd = wnd,
                        !.ts = k.current, !.sn = k.snd_nxt, !.una = k.rcv_nxt,
                        !.resendts = k.current, !.rto = k.rx_rto,
                        !.fastack = 0, !.xmit = 0]
           next == [k EXCEPT !.snd_queue = Tail(@), !.snd_nxt = U32(@ + 1),
                             !.snd_buf = Append(@, newseg)]
       IN IF next.conv = k.conv THEN Promote(next, cwnd, wnd) ELSE k
  ELSE k

\* The three ways a segment is due (kcp.rs:772, 779, 794).
FirstSend(s) == s.xmit = 0

TimedOut(k, s) == ~FirstSend(s) /\ diff(k.current, s.resendts) >= 0

\* resent is fastresend, or u32::MAX when fastresend = 0 (kcp.rs:756-760): a
\* fastack counter of the model never reaches u32::MAX, so 0 stands for it.
FastResend(k, s, resent) ==
  ~FirstSend(s) /\ ~TimedOut(k, s) /\ resent > 0 /\ s.fastack >= resent

\* A transmit pass whose timeout leaves the segment's rto as it was.
TransmittedFlatRto(k, s, resent, rtomin, wnd) ==
  LET t == IF FirstSend(s)
             THEN [s EXCEPT !.xmit = U32(@ + 1), !.rto = k.rx_rto,
                            !.resendts = U32(k.current + k.rx_rto + rtomin)]
           ELSE IF TimedOut(k, s)
             THEN [s EXCEPT !.xmit = U32(@ + 1),
                            !.resendts = U32(k.current + s.rto)]
           ELSE [s EXCEPT !.xmit = U32(@ + 1), !.fastack = 0,
                          !.resendts = U32(k.current + s.rto)]
  IN [t EXCEPT !.ts = k.current, !.wnd = wnd, !.una = k.rcv_nxt]

\* One segment of the transmit pass, as the flush leaves it (kcp.rs:769-808).
Transmitted(k, s, resent, rtomin, wnd) ==
  LET t == IF FirstSend(s)
             THEN [s EXCEPT !.xmit = U32(@ + 1), !.rto = k.rx_rto,
                            !.resendts = U32(k.current + k.rx_rto + rtomin)]
           ELSE IF TimedOut(k, s)
             THEN LET rto == U32(s.rto + (IF ~k.nodelay THEN k.rx_rto
                                          ELSE k.rx_rto \div 2))
                  IN [s EXCEPT !.xmit = U32(@ + 1), !.rto = rto,
                               !.resendts = U32(k.current + rto)]
           ELSE [s EXCEPT !.xmit = U32(@ + 1), !.fastack = 0,
                          !.resendts = U32(k.current + s.rto)]
  IN [t EXCEPT !.ts = k.current, !.wnd = wnd, !.una = k.rcv_nxt]

NeedSend(k, s, resent) == FirstSend(s) \/ TimedOut(k, s) \/ FastResend(k, s, resent)

\* The transmit pass (kcp.rs:768-820) staging snd_buf[i..].
RECURSIVE FlushData(_, _, _, _, _, _)
FlushData(st, k, buf, i, resent, wnd) ==
  IF i > Len(buf) THEN st
  ELSE IF NeedSend(k, buf[i], resent)
    THEN LET rtomin == IF ~k.nodelay THEN k.rx_rto \div 8 ELSE 0
             s == Transmitted(k, buf[i], resent, rtomin, wnd)
             next == Stage(st, s, IKCP_OVERHEAD + Len(s.data), k.mtu)
         IN IF Len(next.buffer) >= 0
            THEN FlushData(next, k, buf, i + 1, resent, wnd)
            ELSE st
    ELSE FlushData(st, k, buf, i + 1, resent, wnd)

\* The congestion update that ends the flush (kcp.rs:830-853).
CongestionUpdate(k, change, lost, cwnd, resent) ==
  LET k1 == IF change
            THEN LET ssthresh == Max((k.snd_nxt - k.snd_una) \div 2, IKCP_THRESH_MIN)
                 IN [k EXCEPT !.ssthresh = ssthresh, !.cwnd = U32(ssthresh + resent),
                              !.incr = U32(U32(ssthresh + resent) * k.mss)]
            ELSE k
      k2 == IF lost
            THEN [k1 EXCEPT !.ssthresh = Max(cwnd \div 2, IKCP_THRESH_MIN),
                            !.cwnd = 1, !.incr = k.mss]
            ELSE k1
  IN IF k2.cwnd < 1 THEN [k2 EXCEPT !.cwnd = 1, !.incr = k.mss] ELSE k2

\* ikcp_flush: [k, out].
ikcp_flush(k) ==
  LET wnd == ikcp_wnd_unused(k)
      seg == [DefaultSegment EXCEPT !.conv = k.conv, !.cmd = IKCP_CMD_ACK,
                                    !.wnd = wnd, !.una = k.rcv_nxt]
      st1 == FlushAcks([buffer |-> << >>, out |-> << >>], seg, k.acklist, 1,
                       Len(k.acklist), k.mtu)
      k1 == ProbeSchedule([k EXCEPT !.acklist = << >>])
      st2 == FlushProbes(st1, seg, k1.probe, k.mtu)
      cwnd == EffectiveCwnd(k1)
      k2 == Promote([k1 EXCEPT !.probe = 0], cwnd, wnd)
      resent == k.fastresend
      rtomin == IF ~k.nodelay THEN k.rx_rto \div 8 ELSE 0
      st3 == FlushData(st2, k2, k2.snd_buf, 1, resent, wnd)
      lost == \E i \in 1..Len(k2.snd_buf) : TimedOut(k2, k2.snd_buf[i])
      change == \E i \in 1..Len(k2.snd_buf) : FastResend(k2, k2.snd_buf[i], resent)
      nretx == Cardinality({i \in 1..Len(k2.snd_buf) : TimedOut(k2, k2.snd_buf[i])})
      k3 == [k2 EXCEPT !.xmit = U32(@ + nretx),
                       !.snd_buf = [i \in 1..Len(k2.snd_buf) |->
                                     IF NeedSend(k2, k2.snd_buf[i], resent)
                                     THEN Transmitted(k2, k2.snd_buf[i], resent, rtomin, wnd)
                                     ELSE k2.snd_buf[i]]]
  IN IF ~k.updated THEN [k |-> k, out |-> << >>]
     ELSE [k |-> CongestionUpdate(k3, change, lost, cwnd, resent),
           out |-> WriteAll(st3.out, st3.buffer)]

\* ikcp_flush on a sink whose write succeeds (sinkOk) or returns an error.
\* Every write_all of the flush is followed by unwrap() (kcp.rs:669, 708,
\* 720, 814, 824): the first write of a non-empty buffer to a failing sink
\* panics, the call does not return and the caller sees no block; write_all
\* of an empty buffer never reaches the sink.
FlushWithSink(k, sinkOk) ==
  LET r == ikcp_flush(k)
  IN IF sinkOk \/ r.out = << >>
     THEN [panicked |-> FALSE, k |-> r.k, out |-> r.out]
     ELSE [panicked |-> TRUE, out |-> << >>]

\* An update that never resynchronises ts_flush with the clock.
UpdateNoResync(k, current) ==
  LET k1 == IF ~k.updated
            THEN [k EXCEPT !.current = current, !.updated = TRUE, !.ts_flush = current]
            ELSE [k EXCEPT !.current = current]
      slap == diff(current, k1.ts_flush)
      next == U32(k1.ts_flush + k1.interval)
      k3 == [k1 EXCEPT !.ts_flush = IF diff(current, next) >= 0
                                    THEN U32(current + k1.interval) ELSE next]
  IN IF slap >= 0 THEN ikcp_flush(k3) ELSE [k |-> k1, out |-> << >>]

(***************************************************************************)
(* ikcp_update (kcp.rs:572-594): [k, out].                                 *)
(***************************************************************************)
ikcp_update(k, current) ==
  LET k1 == IF ~k.updated
            THEN [k EXCEPT !.current = current, !.updated = TRUE, !.ts_flush = current]
            ELSE [k EXCEPT !.current = current]
      slap0 == diff(current, k1.ts_flush)
      resync == slap0 > SLAP_MAX \/ slap0 < -SLAP_MAX
      k2 == IF resync THEN [k1 EXCEPT !.ts_flush = current] ELSE k1
      slap == IF resync THEN 0 ELSE slap0
      next == U32(k2.ts_flush + k2.interval)
      k3 == [k2 EXCEPT !.ts_flush = IF diff(current, next) >= 0
                                    THEN U32(current + k2.interval) ELSE next]
  IN IF slap >= 0 THEN ikcp_flush(k3) ELSE [k |-> k2, out |-> << >>]

(***************************************************************************)
(* Configuration (kcp.rs:870-929).                                         *)
(***************************************************************************)
\* ikcp_setmtu: the block, unchanged when the mtu is refused.
ikcp_setmtu(k, mtu) ==
  IF mtu < MTU_MIN \/ mtu < IKCP_OVERHEAD THEN k
  ELSE [k EXCEPT !.mtu = mtu, !.mss = mtu - IKCP_OVERHEAD]

ikcp_wndsize(k, sndwnd, rcvwnd) ==
  LET k1 == IF sndwnd > 0 THEN [k EXCEPT !.snd_wnd = sndwnd] ELSE k
  IN IF rcvwnd > 0 THEN [k1 EXCEPT !.rcv_wnd = Max(rcvwnd, IKCP_WND_RCV)] ELSE k1

ikcp_waitsnd(k) == Len(k.snd_buf) + Len(k.snd_queue)

\* ikcp_interval (kcp.rs:881-889) and the same clamp in ikcp_nodelay (907-913).
ClampInterval(internal) ==
  IF internal > 5000 THEN 5000 ELSE IF internal < 10 THEN 10 ELSE internal

ikcp_interval(k, internal) == [k EXCEPT !.interval = ClampInterval(internal)]

\* ikcp_nodelay (kcp.rs:896-914).
ikcp_nodelay(k, nodelay, internal, resend, nc) ==
  [k EXCEPT !.nodelay = nodelay, !.fastresend = resend, !.nocwnd = nc,
            !.rx_minrto = IF nodelay THEN IKCP_RTO_NDL ELSE IKCP_RTO_MIN,
            !.interval = ClampInterval(internal)]

(***************************************************************************)
(* The environment: two control blocks A and B of one conversation, the    *)
(* datagrams in flight in each direction, the host clock, and the          *)
(* application's record of what it sent and received.                      *)
(***************************************************************************)
VARIABLES A, B, netAB, netBA, injected, now, sent, rcvd

vars == << A, B, netAB, netBA, injected, now, sent, rcvd >>

\* The conversation id both ends are created with (examples/client.rs:40).
Conv == 1

\* The application's receive buffer length (examples/client.rs:44).
RecvBuf == 100

\* Bounds of the model.
MaxTicks == 2

MaxDups == 1

MaxSends == 2

LongLen == 60

\* The host clock advances by one flush interval per tick.
TickMs == IKCP_INTERVAL

\* The messages the application submits: a short one, one that needs three
\* fragments at the smallest mtu, and one whose 24 bytes are themselves an
\* encoded segment of the same conversation (KCP carried over KCP).
MsgHi == << 104, 105 >>

MsgLong == [i \in 1..LongLen |-> i]

MsgSegment ==
  encode([DefaultSegment EXCEPT !.conv = Conv, !.cmd = IKCP_CMD_PUSH, !.sn = 1])

Msgs == {MsgHi, MsgLong, MsgSegment}

SeqToSet(s) == {s[i] : i \in 1..Len(s)}

Init ==
  /\ A = ickp_create(Conv)
  /\ B = ickp_create(Conv)
  /\ netAB = {}
  /\ netBA = {}
  /\ injected = 0
  /\ now = 0
  /\ sent = << >>
  /\ rcvd = << >>

\* The clock moves on, once both hosts have called update at this reading.
Polled(k) == k.updated /\ k.current = now

Tick ==
  /\ now < MaxTicks * TickMs
  /\ Polled(A) /\ Polled(B)
  /\ now' = now + TickMs
  /\ UNCHANGED << A, B, netAB, netBA, injected, sent, rcvd >>

\* A is configured with the smallest mtu before it is used.
SetMtuA ==
  /\ sent = << >> /\ ~A.updated /\ A.mtu # MTU_MIN
  /\ A' = ikcp_setmtu(A, MTU_MIN)
  /\ UNCHANGED << B, netAB, netBA, injected, now, sent, rcvd >>

\* The application on A submits a message.
SendA ==
  \E m \in Msgs :
    LET r == ikcp_send(A, m)
    IN /\ Len(sent) < MaxSends
       /\ A' = r.k
       /\ sent' = IF r.ok THEN Append(sent, m) ELSE sent
       /\ UNCHANGED << B, netAB, netBA, injected, now, rcvd >>

\* The host of A calls update with the clock; what flush writes is in flight.
UpdateA ==
  LET r == ikcp_update(A, now)
  IN /\ ~Polled(A)
     /\ A' = r.k
     /\ netAB' = netAB \cup SeqToSet(r.out)
     /\ UNCHANGED << B, netBA, injected, now, sent, rcvd >>

UpdateB ==
  LET r == ikcp_update(B, now)
  IN /\ ~Polled(B)
     /\ B' = r.k
     /\ netBA' = netBA \cup SeqToSet(r.out)
     /\ UNCHANGED << A, netAB, injected, now, sent, rcvd >>

\* A datagram of A reaches B and leaves the network.  A datagram that is
\* never delivered is lost; delivery is in any order.
DeliverAB ==
  \E d \in netAB :
    LET r == ikcp_input(B, d)
    IN /\ B' = r.k
       /\ netAB' = netAB \ {d}
       /\ UNCHANGED << A, netBA, injected, now, sent, rcvd >>

\* The network duplicates a datagram: it reaches B and is still in flight.
DuplicateAB ==
  \E d \in netAB :
    LET r == ikcp_input(B, d)
    IN /\ injected < MaxDups
       /\ injected' = injected + 1
       /\ B' = r.k
       /\ UNCHANGED << A, netAB, netBA, now, sent, rcvd >>

DeliverBA ==
  \E d \in netBA :
    LET r == ikcp_input(A, d)
    IN /\ A' = r.k
       /\ netBA' = netBA \ {d}
       /\ UNCHANGED << B, netAB, injected, now, sent, rcvd >>

\* The application on B asks for the next message.
RecvB ==
  LET r == ikcp_recv(B, RecvBuf)
  IN /\ B' = r.k
     /\ rcvd' = IF r.ok THEN Append(rcvd, r.data) ELSE rcvd
     /\ UNCHANGED << A, netAB, netBA, injected, now, sent >>

Next ==
  \/ Tick
  \/ SetMtuA
  \/ SendA
  \/ UpdateA
  \/ UpdateB
  \/ DeliverAB
  \/ DuplicateAB
  \/ DeliverBA
  \/ RecvB

Spec == Init /\ [][Next]_vars

(***************************************************************************)
(* One control block driven through its whole public surface, in any       *)
(* order, with datagrams of any origin: input takes whatever bytes the     *)
(* host hands it.                                                          *)
(***************************************************************************)
MaxInject == 2

AnyTicks == 2

\* One encoded segment of the conversation.
Wire(cmd, frg, wnd, ts, sn, una, data) ==
  encode([DefaultSegment EXCEPT !.conv = Conv, !.cmd = cmd, !.frg = frg,
            !.wnd = wnd, !.ts = ts, !.sn = sn, !.una = una,
            !.len = Len(data), !.data = data])

Ack(sn, una, wnd) == Wire(IKCP_CMD_ACK, 0, wnd, 0, sn, una, << >>)

Push(sn, frg, data) == Wire(IKCP_CMD_PUSH, frg, IKCP_WND_RCV, 0, sn, 0, data)

\* Datagrams made of ACK segments only, with sn and una inside and outside
\* the send window, alone and concatenated.
AckDatagrams ==
  { Ack(0, 0, IKCP_WND_RCV), Ack(2, 1, IKCP_WND_RCV), Ack(1, 1, 1),
    Ack(5, 9, IKCP_WND_RCV), Ack(2, 0, IKCP_WND_RCV) \o Ack(0, 0, IKCP_WND_RCV) }

Datagrams ==
  AckDatagrams \cup
  { Push(0, 0, MsgHi), Push(1, 0, MsgHi), Wire(IKCP_CMD_WINS, 0, 0, 0, 0, 0, << >>) }

AnyMsgs == {MsgHi, MsgLong}

AnyTick ==
  /\ now < AnyTicks * TickMs
  /\ now' = now + TickMs
  /\ UNCHANGED << A, B, netAB, netBA, injected, sent, rcvd >>

AnySend ==
  \E m \in AnyMsgs :
    LET r == ikcp_send(A, m)
    IN /\ Len(sent) < MaxSends
       /\ A' = r.k
       /\ sent' = IF r.ok THEN Append(sent, m) ELSE sent
       /\ UNCHANGED << B, netAB, netBA, injected, now, rcvd >>

AnyUpdate ==
  LET r == ikcp_update(A, now)
  IN /\ A' = r.k
     /\ UNCHANGED << B, netAB, netBA, injected, now, sent, rcvd >>

AnyFlush ==
  LET r == ikcp_flush(A)
  IN /\ A' = r.k
     /\ UNCHANGED << B, netAB, netBA, injected, now, sent, rcvd >>

AnyInput ==
  \E d \in Datagrams :
    LET r == ikcp_input(A, d)
    IN /\ injected < MaxInject
       /\ injected' = injected + 1
       /\ A' = r.k
       /\ UNCHANGED << B, netAB, netBA, now, sent, rcvd >>

AnyRecv ==
  LET r == ikcp_recv(A, RecvBuf)
  IN /\ A' = r.k
     /\ rcvd' = IF r.ok THEN Append(rcvd, r.data) ELSE rcvd
     /\ UNCHANGED << B, netAB, netBA, injected, now, sent >>

AnySetMtu ==
  \E mtu \in {MTU_MIN - 1, MTU_MIN, IKCP_MTU_DEF} :
    /\ A' = ikcp_setmtu(A, mtu)
    /\ UNCHANGED << B, netAB, netBA, injected, now, sent, rcvd >>

NextAny ==
  \/ AnyTick
  \/ AnySend
  \/ AnyUpdate
  \/ AnyFlush
  \/ AnyInput
  \/ AnyRecv
  \/ AnySetMtu

SpecAny == Init /\ [][NextAny]_vars

(***************************************************************************)
(* The lossless loopback: every datagram is delivered exactly once, in any *)
(* order and after any delay; both hosts poll update on a slower clock.    *)
(***************************************************************************)
LoopTicks == 3

LoopTickMs == 3 * IKCP_INTERVAL

LoopTick ==
  /\ now < LoopTicks * LoopTickMs
  /\ Polled(A) /\ Polled(B)
  /\ now' = now + LoopTickMs
  /\ UNCHANGED << A, B, netAB, netBA, injected, sent, rcvd >>

NextLoop ==
  \/ LoopTick
  \/ SendA
  \/ UpdateA
  \/ UpdateB
  \/ DeliverAB
  \/ DeliverBA
  \/ RecvB

SpecLoop == Init /\ [][NextLoop]_vars

(***************************************************************************)
(* The receiver under a peer that fills its window.  The peer emits one    *)
(* message of rcv_wnd + 1 fragments: first its last fragment, the one at   *)
(* the far edge of the largest window, then the others in order, several   *)
(* to a datagram.  The network holds a few datagrams and delivers them in  *)
(* any order; the host resizes the window, polls update and reads.         *)
(***************************************************************************)
\* Segments per datagram.
PartLen == 32

\* Datagrams the network holds at a time.
MaxFlight == 2

RcvTicks == 1

\* Times the peer retransmits the edge fragment.
MaxRepeats == 1

\* The application's buffer, large enough for the whole message.
RcvBufLen == 256

\* Fragment sn of the message: one byte of payload, frg counting down to 0
\* at sn = IKCP_WND_RCV.
Fragment(sn) == Push(sn, IKCP_WND_RCV - sn, << sn >>)

EdgeDatagram == Fragment(IKCP_WND_RCV)

\* Fragments from .. to in one datagram.
RECURSIVE Part(_, _)
Part(from, to) ==
  IF from > to THEN << >>
  ELSE IF from = to THEN Fragment(from)
  ELSE Part(from, (from + to) \div 2) \o Part((from + to) \div 2 + 1, to)

NumParts == (IKCP_WND_RCV + PartLen - 1) \div PartLen

\* The i-th datagram the peer emits: the edge fragment, the parts in order,
\* then the edge fragment again.
Emission(i) ==
  IF i = 0 \/ i > NumParts THEN EdgeDatagram
  ELSE Part((i - 1) * PartLen, Min(i * PartLen, IKCP_WND_RCV) - 1)

RcvEmit ==
  /\ injected <= NumParts + MaxRepeats
  /\ Cardinality(netAB) < MaxFlight
  /\ netAB' = netAB \cup {Emission(injected)}
  /\ injected' = injected + 1
  /\ UNCHANGED << A, B, netBA, now, sent, rcvd >>

RcvTick ==
  /\ now < RcvTicks * TickMs
  /\ now' = now + TickMs
  /\ UNCHANGED << A, B, netAB, netBA, injected, sent, rcvd >>

\* The host resizes the receive window: the default, one more, and one
\* that does not fit the 16-bit wnd field of the header.
RcvWndSize ==
  \E w \in {IKCP_WND_RCV, IKCP_WND_RCV + 1, 65536 + IKCP_WND_RCV} :
    /\ B' = ikcp_wndsize(B, 0, w)
    /\ UNCHANGED << A, netAB, netBA, injected, now, sent, rcvd >>

\* update on B; what it emits is not followed further.
RcvUpdate ==
  /\ B' = ikcp_update(B, now).k
  /\ UNCHANGED << A, netAB, netBA, injected, now, sent, rcvd >>

RcvRecv ==
  LET r == ikcp_recv(B, RcvBufLen)
  IN /\ B' = r.k
     /\ rcvd' = IF r.ok THEN Append(rcvd, r.data) ELSE rcvd
     /\ UNCHANGED << A, netAB, netBA, injected, now, sent >>

NextRcv ==
  \/ RcvEmit
  \/ RcvTick
  \/ RcvWndSize
  \/ RcvUpdate
  \/ DeliverAB
  \/ RcvRecv

SpecRcv == Init /\ [][NextRcv]_vars

(***************************************************************************)
(* The sending side alone, in either mode.  The stream flag is set where   *)
(* the block is built (kcp.rs:221) and never changes afterwards, so the    *)
(* mode is chosen with the block.  The application submits messages of     *)
(* every kind: empty, short, long, and too long to fragment.               *)
(***************************************************************************)
\* Clock readings of the sending host.
SendTicks == 3

\* Length of the short message that leaves room in a segment.
ShortLen == 10

\* One byte more than FRG_MAX + 1 full segments at the smallest mss: too
\* long even after a top-up has taken a segment's worth.
TooLongLen == (FRG_MAX + 1) * (MTU_MIN - IKCP_OVERHEAD) + 1

MsgEmpty == << >>

MsgShort == [i \in 1..ShortLen |-> 64 + i]

MsgTooLong == [i \in 1..TooLongLen |-> 7]

SendMsgs == {MsgEmpty, MsgShort, MsgLong, MsgTooLong}

InitSend ==
  /\ \E stream \in BOOLEAN : A = [ickp_create(Conv) EXCEPT !.stream = stream]
  /\ B = ickp_create(Conv)
  /\ netAB = {}
  /\ netBA = {}
  /\ injected = 0
  /\ now = 0
  /\ sent = << >>
  /\ rcvd = << >>

SendTick ==
  /\ now < SendTicks * TickMs
  /\ now' = now + TickMs
  /\ UNCHANGED << A, B, netAB, netBA, injected, sent, rcvd >>

\* The host sets the smallest mtu, at any time.
SendSetMtu ==
  /\ A.mtu # MTU_MIN
  /\ A' = ikcp_setmtu(A, MTU_MIN)
  /\ UNCHANGED << B, netAB, netBA, injected, now, sent, rcvd >>

\* The application submits a message; injected counts the calls.
SendAny ==
  \E m \in SendMsgs :
    LET r == ikcp_send(A, m)
    IN /\ injected < MaxSends
       /\ injected' = injected + 1
       /\ A' = r.k
       /\ sent' = IF r.ok THEN Append(sent, m) ELSE sent
       /\ UNCHANGED << B, netAB, netBA, now, rcvd >>

\* update on A; the datagrams it hands to the sink are kept in netAB.
SendUpdate ==
  LET r == ikcp_update(A, now)
  IN /\ ~Polled(A)
     /\ A' = r.k
     /\ netAB' = netAB \cup SeqToSet(r.out)
     /\ UNCHANGED << B, netBA, injected, now, sent, rcvd >>

NextSend ==
  \/ SendTick
  \/ SendSetMtu
  \/ SendAny
  \/ SendUpdate

SpecSend == InitSend /\ [][NextSend]_vars

(***************************************************************************)
(* The round-trip estimator: one control block fed ACKs whose timestamps   *)
(* give small, large and negative samples, while the host switches nodelay *)
(* on and off.                                                             *)
(***************************************************************************)
\* Flush intervals the clock walks through, before and after the idle time.
RtoTicks == 2

\* ACK datagrams handed to input.
MaxAcks == 3

\* Messages the application submits.
RtoSends == 1

\* A long time without a call, longer than IKCP_RTO_MAX.
LongIdle == IKCP_RTO_MAX + SLAP_MAX

\* ACKs stamped at clock 0 and at the first interval.
RtoAcks ==
  { Wire(IKCP_CMD_ACK, 0, IKCP_WND_RCV, ts, sn, sn + 1, << >>) :
      ts \in {0, TickMs}, sn \in {0, 5} }

RtoTick ==
  /\ now % LongIdle < RtoTicks * TickMs
  /\ now' = now + TickMs
  /\ UNCHANGED << A, B, netAB, netBA, injected, sent, rcvd >>

RtoIdle ==
  /\ now < LongIdle
  /\ now' = LongIdle
  /\ UNCHANGED << A, B, netAB, netBA, injected, sent, rcvd >>

RtoSend ==
  LET r == ikcp_send(A, MsgHi)
  IN /\ Len(sent) < RtoSends
     /\ A' = r.k
     /\ sent' = IF r.ok THEN Append(sent, MsgHi) ELSE sent
     /\ UNCHANGED << B, netAB, netBA, injected, now, rcvd >>

RtoUpdate ==
  /\ ~Polled(A)
  /\ A' = ikcp_update(A, now).k
  /\ UNCHANGED << B, netAB, netBA, injected, now, sent, rcvd >>

RtoInput ==
  \E d \in RtoAcks :
    /\ injected < MaxAcks
    /\ injected' = injected + 1
    /\ A' = ikcp_input(A, d).k
    /\ UNCHANGED << B, netAB, netBA, now, sent, rcvd >>

\* nodelay as examples/server.rs:36 switches it on, and back to the defaults.
RtoNodelay ==
  \/ /\ ~A.nodelay
     /\ A' = ikcp_nodelay(A, TRUE, 1, 10, TRUE)
     /\ UNCHANGED << B, netAB, netBA, injected, now, sent, rcvd >>
  \/ /\ A.nodelay
     /\ A' = ikcp_nodelay(A, FALSE, IKCP_INTERVAL, 0, FALSE)
     /\ UNCHANGED << B, netAB, netBA, injected, now, sent, rcvd >>

NextRto ==
  \/ RtoTick
  \/ RtoIdle
  \/ RtoSend
  \/ RtoUpdate
  \/ RtoInput
  \/ RtoNodelay

SpecRto == Init /\ [][NextRto]_vars

(***************************************************************************)
(* The reading side alone: the peer's PUSH segments reach B in any order   *)
(* and the application calls recv with a small and with a large buffer.    *)
(* input takes the frg byte as it comes, so the highest value is among     *)
(* the segments.                                                           *)
(***************************************************************************)
\* Datagrams handed to B.
MaxReads == 4

\* A buffer too small for any message but the empty one.
SmallBuf == 2

ReadTicks == 1

\* A three-fragment message at sn 0..2, a long message at sn 3, the first
\* fragment of a message that never completes at sn 4, and a segment for
\* sn 0 announcing 255 fragments after it.
ReadDatagrams ==
  { Push(0, 2, << 1 >>), Push(1, 1, << 2 >>), Push(2, 0, << 3 >>),
    Push(3, 0, MsgLong), Push(4, 1, << 4 >>), Push(0, FRG_MAX, << 9 >>) }

ReadBufs == {SmallBuf, RecvBuf}

ReadTick ==
  /\ now < ReadTicks * TickMs
  /\ now' = now + TickMs
  /\ UNCHANGED << A, B, netAB, netBA, injected, sent, rcvd >>

ReadUpdate ==
  /\ ~Polled(B)
  /\ B' = ikcp_update(B, now).k
  /\ UNCHANGED << A, netAB, netBA, injected, now, sent, rcvd >>

ReadInput ==
  \E d \in ReadDatagrams :
    /\ injected < MaxReads
    /\ injected' = injected + 1
    /\ B' = ikcp_input(B, d).k
    /\ UNCHANGED << A, netAB, netBA, now, sent, rcvd >>

ReadRecv ==
  \E buflen \in ReadBufs :
    LET r == ikcp_recv(B, buflen)
    IN /\ B' = r.k
       /\ rcvd' = IF r.ok THEN Append(rcvd, r.data) ELSE rcvd
       /\ UNCHANGED << A, netAB, netBA, injected, now, sent >>

NextRead ==
  \/ ReadTick
  \/ ReadUpdate
  \/ ReadInput
  \/ ReadRecv

SpecRead == Init /\ [][NextRead]_vars

(***************************************************************************)
(* The sender across the wrap of the 32-bit millisecond clock: the host    *)
(* starts shortly before 2^32 ms and calls update at some of the clock     *)
(* readings, as a host that sleeps between polls does.                     *)
(***************************************************************************)
\* Flush intervals between the first clock reading and the wrap.
WrapLead == 4

\* Flush intervals the clock runs after the wrap.
WrapTicks == 4

WrapSends == 1

InitWrap ==
  /\ A = ickp_create(Conv)
  /\ B = ickp_create(Conv)
  /\ netAB = {}
  /\ netBA = {}
  /\ injected = 0
  /\ now = U32(0 - WrapLead * TickMs)
  /\ sent = << >>
  /\ rcvd = << >>

WrapTick ==
  /\ now < WrapTicks * TickMs
  /\ now' = U32(now + TickMs)
  /\ UNCHANGED << A, B, netAB, netBA, injected, sent, rcvd >>

WrapSend ==
  LET r == ikcp_send(A, MsgHi)
  IN /\ Len(sent) < WrapSends
     /\ A' = r.k
     /\ sent' = IF r.ok THEN Append(sent, MsgHi) ELSE sent
     /\ UNCHANGED << B, netAB, netBA, injected, now, rcvd >>

\* update at this clock reading; injected counts the datagrams written.
WrapUpdate ==
  LET r == ikcp_update(A, now)
  IN /\ ~Polled(A)
     /\ A' = r.k
     /\ netAB' = netAB \cup SeqToSet(r.out)
     /\ injected' = injected + Len(r.out)
     /\ UNCHANGED << B, netBA, now, sent, rcvd >>

NextWrap ==
  \/ WrapTick
  \/ WrapSend
  \/ WrapUpdate

SpecWrap == InitWrap /\ [][NextWrap]_vars

(***************************************************************************)
(* Two hosts over a lossless, order-keeping link, each running the loop of *)
(* the examples: update, then input of every datagram that has arrived,    *)
(* then (on B, when the application reads) recv.  A sends one message that *)
(* fills B's receive window and a second one behind it.  netAB and netBA   *)
(* are the datagrams in flight, in order.                                  *)
(***************************************************************************)
\* Clock steps of one flush interval.
ProbeTicks == 9

\* Clock steps of a whole probe wait.
ProbeWaits == 1

\* A message of IKCP_WND_RCV fragments at the smallest mss.
FillLen == (IKCP_WND_RCV - 1) * (MTU_MIN - IKCP_OVERHEAD) + 1

MsgFill == [i \in 1..FillLen |-> 1]

InitProbe ==
  /\ A = ickp_create(Conv)
  /\ B = ickp_create(Conv)
  /\ netAB = << >>
  /\ netBA = << >>
  /\ injected = 0
  /\ now = 0
  /\ sent = << >>
  /\ rcvd = << >>

\* Every datagram of ds handed to input, in order (client.rs:58-74).
RECURSIVE InputAll(_, _, _)
InputAll(k, ds, i) ==
  IF i > Len(ds) THEN k
  ELSE LET next == ikcp_input(k, ds[i]).k
       IN IF next.conv = k.conv THEN InputAll(next, ds, i + 1) ELSE k

\* A is set up with the smallest mtu and without congestion control.
ProbeSetup ==
  /\ A.mtu # MTU_MIN /\ ~A.updated
  /\ A' = ikcp_nodelay(ikcp_setmtu(A, MTU_MIN), FALSE, IKCP_INTERVAL, 0, TRUE)
  /\ UNCHANGED << B, netAB, netBA, injected, now, sent, rcvd >>

ProbeSend ==
  LET m == IF sent = << >> THEN MsgFill ELSE MsgHi
      r == ikcp_send(A, m)
  IN /\ A.mtu = MTU_MIN /\ ~A.updated /\ Len(sent) < 2
     /\ A' = r.k
     /\ sent' = IF r.ok THEN Append(sent, m) ELSE sent
     /\ UNCHANGED << B, netAB, netBA, injected, now, rcvd >>

ProbeUpdateA ==
  LET r == ikcp_update(A, now)
  IN /\ ~Polled(A)
     /\ A' = r.k
     /\ netAB' = netAB \o r.out
     /\ UNCHANGED << B, netBA, injected, now, sent, rcvd >>

ProbeUpdateB ==
  LET r == ikcp_update(B, now)
  IN /\ ~Polled(B)
     /\ B' = r.k
     /\ netBA' = netBA \o r.out
     /\ UNCHANGED << A, netAB, injected, now, sent, rcvd >>

ProbeDrainA ==
  /\ netBA # << >>
  /\ A' = InputAll(A, netBA, 1)
  /\ netBA' = << >>
  /\ UNCHANGED << B, netAB, injected, now, sent, rcvd >>

ProbeDrainB ==
  /\ netAB # << >>
  /\ B' = InputAll(B, netAB, 1)
  /\ netAB' = << >>
  /\ UNCHANGED << A, netBA, injected, now, sent, rcvd >>

\* The application on B reads a message, when it cares to.
ProbeRecvB ==
  LET r == ikcp_recv(B, FillLen)
  IN /\ r.ok
     /\ B' = r.k
     /\ rcvd' = Append(rcvd, r.data)
     /\ UNCHANGED << A, netAB, netBA, injected, now, sent >>

\* Both hosts have run their loop at this clock reading and have taken in
\* everything that arrived.
LoopsDone == Polled(A) /\ Polled(B) /\ netAB = << >> /\ netBA = << >>

\* The clock moves by a flush interval (injected counts these steps) ...
ProbeTick ==
  /\ LoopsDone
  /\ injected < ProbeTicks
  /\ injected' = injected + 1
  /\ now' = now + TickMs
  /\ UNCHANGED << A, B, netAB, netBA, sent, rcvd >>

\* ... or by a whole probe wait, the hosts having slept with nothing in
\* flight.
ProbeWait ==
  /\ LoopsDone /\ A.snd_buf = << >> /\ A.snd_queue # << >>
  /\ now < ProbeWaits * IKCP_PROBE_INIT
  /\ now' = now + IKCP_PROBE_INIT
  /\ UNCHANGED << A, B, netAB, netBA, injected, sent, rcvd >>

NextProbe ==
  \/ ProbeSetup
  \/ ProbeSend
  \/ ProbeUpdateA
  \/ ProbeUpdateB
  \/ ProbeDrainA
  \/ ProbeDrainB
  \/ ProbeRecvB
  \/ ProbeTick
  \/ ProbeWait

\* Both host loops keep running, the application on B keeps reading and
\* the clock keeps moving: weak fairness of each of these steps, written
\* out as "infinitely often not enabled, or infinitely often taken" with
\* the enabling condition of the step spelled out.
ProbeFairness ==
  /\ ([]<>Polled(A)) \/ ([]<><<ProbeUpdateA>>_vars)
  /\ ([]<>Polled(B)) \/ ([]<><<ProbeUpdateB>>_vars)
  /\ ([]<>(netBA = << >>)) \/ ([]<><<ProbeDrainA>>_vars)
  /\ ([]<>(netAB = << >>)) \/ ([]<><<ProbeDrainB>>_vars)
  /\ ([]<>(~ikcp_recv(B, FillLen).ok)) \/ ([]<><<ProbeRecvB>>_vars)
  /\ ([]<>(~(LoopsDone /\ injected < ProbeTicks))) \/ ([]<><<ProbeTick>>_vars)

SpecProbe == InitProbe /\ [][NextProbe]_vars /\ ProbeFairness

(***************************************************************************)
(* The sender under acknowledgements: A is configured, submits short       *)
(* messages, polls update or calls flush directly, and takes in ACK        *)
(* datagrams that acknowledge out of order, advertise a small window or    *)
(* end in a segment input rejects.  Configuration and submission come      *)
(* before the first update.                                                *)
(***************************************************************************)
\* Clock steps of one flush interval.
FastTicks == 3

\* ACK datagrams handed to input.
MaxFastAcks == 2

\* Messages the application submits.
FastSends == 3

\* The fast-resend threshold the host configures.
FastK == 2

\* The small send window the host configures.
SmallWnd == 2

\* The last datagram ends in a segment with a command input does not know.
FastDatagrams ==
  { Ack(0, 1, IKCP_WND_RCV), Ack(1, 2, 1), Ack(1, 0, IKCP_WND_RCV),
    Ack(2, 0, IKCP_WND_RCV),
    Ack(2, 0, IKCP_WND_RCV) \o Ack(1, 0, IKCP_WND_RCV),
    Ack(2, 0, IKCP_WND_RCV) \o Wire(0, 0, IKCP_WND_RCV, 0, 0, 0, << >>) }

FastTick ==
  /\ A.updated /\ now < FastTicks * TickMs
  /\ now' = now + TickMs
  /\ UNCHANGED << A, B, netAB, netBA, injected, sent, rcvd >>

FastConfig ==
  \E resend \in {0, FastK}, nc \in BOOLEAN :
    /\ ~A.updated
    /\ A' = ikcp_nodelay(A, FALSE, IKCP_INTERVAL, resend, nc)
    /\ UNCHANGED << B, netAB, netBA, injected, now, sent, rcvd >>

FastWndSize ==
  \E w \in {SmallWnd, IKCP_WND_SND} :
    /\ A' = ikcp_wndsize(A, w, 0)
    /\ UNCHANGED << B, netAB, netBA, injected, now, sent, rcvd >>

\* The messages differ in their second byte, the number of the submission.
FastSend ==
  LET m == << 104, Len(sent) >>
      r == ikcp_send(A, m)
  IN /\ Len(sent) < FastSends /\ ~A.updated
     /\ A' = r.k
     /\ sent' = IF r.ok THEN Append(sent, m) ELSE sent
     /\ UNCHANGED << B, netAB, netBA, injected, now, rcvd >>

FastInput ==
  \E d \in FastDatagrams :
    /\ injected < MaxFastAcks
    /\ injected' = injected + 1
    /\ A' = ikcp_input(A, d).k
    /\ UNCHANGED << B, netAB, netBA, now, sent, rcvd >>

NextFast ==
  \/ FastTick
  \/ FastConfig
  \/ FastWndSize
  \/ FastSend
  \/ AnyUpdate
  \/ AnyFlush
  \/ FastInput

SpecFast == Init /\ [][NextFast]_vars

(***************************************************************************)
(* The host clock as update sees it: a reading of the system time, which   *)
(* may stand a little or far ahead of the last one, or behind it.  A       *)
(* submits messages, polls update and calls flush directly.                *)
(***************************************************************************)
\* Changes of the clock reading.
MaxJumps == 3

\* The readings: within an interval, an interval apart, and further apart
\* than the resynchronisation threshold.
TickTimes ==
  { 0, TickMs \div 2, TickMs, 2 * SLAP_MAX, 2 * SLAP_MAX + TickMs \div 2,
    4 * SLAP_MAX }

TickJump ==
  \E t \in TickTimes \ {now} :
    /\ injected < MaxJumps
    /\ injected' = injected + 1
    /\ now' = t
    /\ UNCHANGED << A, B, netAB, netBA, sent, rcvd >>

NextTick ==
  \/ TickJump
  \/ AnySend
  \/ AnyUpdate
  \/ AnyFlush

SpecTick == Init /\ [][NextTick]_vars

(***************************************************************************)
(* Claims.                                                                 *)
(***************************************************************************)
IsPrefix(s, t) == Len(s) <= Len(t) /\ SubSeq(t, 1, Len(s)) = s

\* C1: in-order exactly-once delivery.  Whatever the network loses,
\* duplicates or reorders among the datagrams A's flush emitted, the messages
\* B's successful recv calls have returned are at every moment a prefix of the
\* messages A's send accepted: same order, none twice, none skipped, each
\* byte-identical.
C1_InOrderExactlyOnce == IsPrefix(rcvd, sent)

\* Nothing is in flight, A has nothing left to send or resend, and B holds
\* nothing it has not handed to the application or acknowledged.
Quiet ==
  /\ netAB = {} /\ netBA = {}
  /\ ikcp_waitsnd(A) = 0
  /\ B.rcv_queue = << >> /\ B.rcv_buf = << >> /\ B.acklist = << >>

Returned(m) == \E j \in 1..Len(rcvd) : rcvd[j] = m

\* C2: round trip on the lossless loopback.  Once every datagram has been
\* delivered and A's snd_queue and snd_buf and B's rcv_buf are empty, every
\* message A's send accepted has been returned by B's recv.
C2_RoundTrip == Quiet => \A i \in 1..Len(sent) : Returned(sent[i])

(***************************************************************************)
(* Fragmentation and reassembly.                                           *)
(***************************************************************************)
\* The number of fragments of a message of n > 0 bytes: ceil(n / mss).
FragCount(n, mss) == CHOOSE c \in 1..n : (c - 1) * mss < n /\ n <= c * mss

\* What the law prescribes for message m: frg runs count-1 .. 0, every
\* fragment but the last carries mss bytes, the last the remainder.
Fragments(m, mss) ==
  LET count == FragCount(Len(m), mss)
  IN [i \in 1..count |->
        [frg |-> count - i,
         len |-> IF i < count THEN mss ELSE Len(m) - (count - 1) * mss,
         data |-> SubSeq(m, (i - 1) * mss + 1, Min(i * mss, Len(m)))]]

View(seg) == [frg |-> seg.frg, len |-> seg.len, data |-> seg.data]

\* A step in which send accepted a message appends its fragments, and only
\* them, to snd_queue.
SendAppendsFragments ==
  sent' # sent =>
    LET m == sent'[Len(sent')]
        f == Fragments(m, A.mss)
        old == Len(A.snd_queue)
    IN /\ Len(A'.snd_queue) = old + Len(f)
       /\ SubSeq(A'.snd_queue, 1, old) = A.snd_queue
       /\ \A i \in 1..Len(f) : View(A'.snd_queue[old + i]) = f[i]

\* The head of k's rcv_queue holds every fragment of m, in order.
HeadIs(k, m, mss) ==
  LET f == Fragments(m, mss)
  IN /\ Len(k.rcv_queue) >= Len(f)
     /\ \A i \in 1..Len(f) : View(k.rcv_queue[i]) = f[i]

\* Fewer than frg + 1 segments queued: peeksize and recv both fail.
IncompleteFails ==
  (B.rcv_queue # << >> /\ Len(B.rcv_queue) < Head(B.rcv_queue).frg + 1)
    => ~ikcp_peeksize(B).ok /\ ~ikcp_recv(B, RecvBuf).ok

\* All fragments of m queued: one recv returns m and removes exactly them.
CompleteReturns ==
  \A m \in Msgs :
    HeadIs(B, m, A.mss) =>
      LET r == ikcp_recv(B, RecvBuf)
          n == Len(Fragments(m, A.mss))
          rest == SubSeq(B.rcv_queue, n + 1, Len(B.rcv_queue))
      IN /\ ikcp_peeksize(B) = [ok |-> TRUE, val |-> Len(m)]
         /\ r.ok /\ r.val = Len(m) /\ r.data = m
         /\ Len(r.k.rcv_queue) >= Len(rest)
         /\ SubSeq(r.k.rcv_queue, 1, Len(rest)) = rest

\* C3: fragmentation and reassembly.  In message mode a send of n bytes
\* appends exactly ceil(n/mss) segments to snd_queue, frg running count-1
\* down to 0, each of mss bytes but the last, which carries the remainder; on
\* the peer peeksize and recv fail while fewer than frg+1 segments are in
\* rcv_queue, and once all fragments of the message head the queue a single
\* recv returns exactly the n original bytes and removes exactly them.
C3_FragmentReassembly ==
  [][SendAppendsFragments]_vars /\ [](IncompleteFails /\ CompleteReturns)

\* B's recv has returned the 60-byte message that A cut into three fragments.
C3_Witness ==
  /\ FragCount(LongLen, A.mss) = 3
  /\ \E j \in 1..Len(rcvd) : rcvd[j] = MsgLong

(***************************************************************************)
(* Duplicate suppression.                                                  *)
(***************************************************************************)
\* d is one PUSH segment of the conversation and nothing else.
IsPushDatagram(d) ==
  /\ Len(d) >= IKCP_OVERHEAD
  /\ DecodeHeader(d, 0).conv = Conv
  /\ DecodeHeader(d, 0).cmd = IKCP_CMD_PUSH
  /\ Len(d) = IKCP_OVERHEAD + DecodeHeader(d, 0).len

\* C4: duplicate suppression.  Giving input a PUSH datagram of A's whose sn
\* has already been promoted (sn < rcv_nxt) adds no segment to rcv_buf or
\* rcv_queue and leaves rcv_nxt unchanged.
C4_DuplicateSuppression ==
  \A d \in netAB :
    (IsPushDatagram(d) /\ DecodeHeader(d, 0).sn < B.rcv_nxt) =>
      LET k == ikcp_input(B, d).k
      IN /\ k.rcv_buf = B.rcv_buf
         /\ k.rcv_queue = B.rcv_queue
         /\ k.rcv_nxt = B.rcv_nxt

(***************************************************************************)
(* Idempotent ACK.                                                         *)
(***************************************************************************)
\* The fields the law names, equal in j and k.
SameSender(j, k) ==
  /\ j.snd_buf = k.snd_buf
  /\ j.snd_una = k.snd_una
  /\ j.rx_srtt = k.rx_srtt
  /\ j.rx_rttval = k.rx_rttval
  /\ j.rx_rto = k.rx_rto
  /\ j.cwnd = k.cwnd
  /\ j.incr = k.incr
  /\ j.rmt_wnd = k.rmt_wnd

\* C5: idempotent ACK.  For every reachable sender state and every datagram
\* of ACK segments, input of the datagram twice in a row leaves snd_buf
\* (fastack included), snd_una, rx_srtt, rx_rttval, rx_rto, cwnd, incr and
\* rmt_wnd as input of it once does.
C5_IdempotentAck ==
  \A d \in AckDatagrams :
    LET once == ikcp_input(A, d).k
        twice == ikcp_input(once, d).k
    IN SameSender(twice, once)

\* k with the round-trip estimator and the fastack counters of j.
WithEstimatorOf(k, j) ==
  [k EXCEPT !.rx_srtt = j.rx_srtt, !.rx_rttval = j.rx_rttval,
            !.rx_rto = j.rx_rto,
            !.snd_buf = [i \in 1..Len(k.snd_buf) |->
                           [k.snd_buf[i] EXCEPT !.fastack =
                              IF i <= Len(j.snd_buf) THEN j.snd_buf[i].fastack
                              ELSE @]]]

\* C5, amended: the second input of the same ACK datagram changes nothing
\* but the round-trip estimator (rx_srtt, rx_rttval, rx_rto), which takes the
\* sample again, and the fastack counters, which count the ACK again; the
\* segments held in snd_buf, snd_una, snd_nxt, cwnd, incr, ssthresh, rmt_wnd
\* and every other field are as after the first.
C5_IdempotentButEstimator ==
  \A d \in AckDatagrams :
    LET once == ikcp_input(A, d).k
        twice == ikcp_input(once, d).k
    IN /\ Len(twice.snd_buf) = Len(once.snd_buf)
       /\ WithEstimatorOf(twice, once) = once

\* ACKs have been input, and there is an ACK datagram whose first input
\* retires a segment and whose second input moves a fastack counter and the
\* estimator.
C5_Witness ==
  /\ injected > 0
  /\ \E d \in AckDatagrams :
       LET once == ikcp_input(A, d).k
           twice == ikcp_input(once, d).k
       IN /\ Len(once.snd_buf) < Len(A.snd_buf)
          /\ once.snd_buf # << >>
          /\ twice.snd_buf # once.snd_buf
          /\ twice.rx_rto # once.rx_rto

(***************************************************************************)
(* Send-buffer invariant.                                                  *)
(***************************************************************************)
SendBufferInvariant(k) ==
  /\ k.snd_una <= k.snd_nxt
  /\ \A i \in 1..Len(k.snd_buf) :
       k.snd_una <= k.snd_buf[i].sn /\ k.snd_buf[i].sn < k.snd_nxt
  /\ \A i \in 1..(Len(k.snd_buf) - 1) : k.snd_buf[i].sn < k.snd_buf[i + 1].sn
  /\ k.snd_una = IF k.snd_buf # << >> THEN Head(k.snd_buf).sn ELSE k.snd_nxt

\* C6: send-buffer invariant.  In every state reached by any interleaving of
\* send, flush/update and input (ACKs with sn or una outside
\* [snd_una, snd_nxt) included): snd_una <= snd_nxt, every segment of snd_buf
\* has snd_una <= sn < snd_nxt with sn strictly increasing, and snd_una is the
\* sn of the head of snd_buf, or snd_nxt when snd_buf is empty.
C6_SendBuffer == SendBufferInvariant(A)

\* Input has retired a segment and another one is in flight behind it.
C6_Witness == injected > 0 /\ A.snd_una > 0 /\ A.snd_buf # << >>

(***************************************************************************)
(* Monotonic cursors.                                                      *)
(***************************************************************************)
Cursors(k) == << k.snd_una, k.snd_nxt, k.rcv_nxt >>

CursorsAdvance ==
  /\ A'.snd_una >= A.snd_una
  /\ A'.snd_nxt >= A.snd_nxt
  /\ A'.rcv_nxt >= A.rcv_nxt

\* The configuration calls leave the three cursors alone.
ConfigKeepsCursors ==
  /\ \A mtu \in {MTU_MIN - 1, MTU_MIN, IKCP_MTU_DEF} :
       Cursors(ikcp_setmtu(A, mtu)) = Cursors(A)
  /\ \A w \in {0, 1, IKCP_WND_RCV + 1} :
       Cursors(ikcp_wndsize(A, w, w)) = Cursors(A)
  /\ \A i \in {0, IKCP_INTERVAL} : Cursors(ikcp_interval(A, i)) = Cursors(A)
  /\ \A nd \in BOOLEAN :
       Cursors(ikcp_nodelay(A, nd, IKCP_INTERVAL, 2, nd)) = Cursors(A)

\* C9: monotonic cursors.  Across every operation (send, recv, input,
\* update, flush, the configuration calls) snd_una, snd_nxt and rcv_nxt never
\* decrease.
C9_MonotonicCursors == [][CursorsAdvance]_vars /\ []ConfigKeepsCursors

\* All three cursors have moved and a segment is still unacknowledged.
C9_Witness == A.snd_una > 0 /\ A.rcv_nxt > 0 /\ A.snd_nxt > A.snd_una

(***************************************************************************)
(* MTU bound on egress.                                                    *)
(***************************************************************************)
\* C10: MTU bound on egress.  Whatever mtu set_mtu accepted, also after
\* segments were queued, every buffer a flush hands to the egress sink in one
\* write is at most mtu bytes long.
C10_EgressWithinMtu ==
  LET out == ikcp_flush(A).out
  IN \A i \in 1..Len(out) : Len(out[i]) <= A.mtu

(***************************************************************************)
(* Receive-buffer and receive-queue invariants.                            *)
(***************************************************************************)
Increasing(sns) == \A i \in 1..(Len(sns) - 1) : sns[i] < sns[i + 1]

Sns(q) == [i \in 1..Len(q) |-> q[i].sn]

\* Every segment of rcv_buf is at or after rcv_nxt, in strictly increasing
\* order.
BufOrdered(k) ==
  /\ \A i \in 1..Len(k.rcv_buf) : k.rcv_nxt <= k.rcv_buf[i].sn
  /\ Increasing(Sns(k.rcv_buf))

\* Every segment of rcv_buf is below the far edge of the window.
BufInWindow(k) ==
  \A i \in 1..Len(k.rcv_buf) : k.rcv_buf[i].sn < k.rcv_nxt + k.rcv_wnd

\* C7: receive-buffer invariant.  In every state reached by input, recv,
\* flush and wndsize calls, every segment in rcv_buf has
\* rcv_nxt <= sn < rcv_nxt + rcv_wnd, and the sn values of rcv_buf are
\* strictly increasing.
C7_ReceiveBuffer == BufOrdered(B) /\ BufInWindow(B)

\* C7, amended: rcv_buf is always strictly increasing and at or after
\* rcv_nxt; the upper bound sn < rcv_nxt + rcv_wnd is kept by every call
\* that does not lower rcv_wnd, and a wndsize call that lowers rcv_wnd can
\* leave a buffered segment at or beyond the new edge.
C7_ReceiveBufferUnlessLowered ==
  /\ []BufOrdered(B)
  /\ [][(BufInWindow(B) /\ B'.rcv_wnd >= B.rcv_wnd) => BufInWindow(B')]_vars

\* With the window enlarged, B has delivered the first part and holds a
\* later part and the fragment at the far edge out of order.
C7_Witness ==
  /\ B.rcv_wnd > IKCP_WND_RCV
  /\ B.rcv_nxt > 0
  /\ Len(B.rcv_buf) >= 2
  /\ B.rcv_buf[Len(B.rcv_buf)].sn = IKCP_WND_RCV

\* rcv_queue has only segments below rcv_nxt, is gap-free up to
\* rcv_nxt - 1, and rcv_buf continues it in strictly increasing order.
QueueOrdered(k) ==
  /\ \A i \in 1..Len(k.rcv_queue) :
       k.rcv_queue[i].sn = k.rcv_nxt - (Len(k.rcv_queue) - i + 1)
  /\ \A i \in 1..Len(k.rcv_queue) : k.rcv_queue[i].sn < k.rcv_nxt
  /\ Increasing(Sns(k.rcv_queue) \o Sns(k.rcv_buf))

QueueWithinWindow(k) == Len(k.rcv_queue) <= k.rcv_wnd

\* A step in which input took a datagram, or recv returned a message.
InputOrRecvStep ==
  \/ injected' = injected /\ netAB' # netAB
  \/ rcvd' # rcvd

\* C8: receive-queue invariant.  After any recv or input call rcv_queue
\* holds at most rcv_wnd segments, each with sn < rcv_nxt, and the sn values
\* of rcv_queue then rcv_buf are one strictly increasing sequence, rcv_queue
\* being gap-free and ending at rcv_nxt - 1.
C8_ReceiveQueue ==
  [][InputOrRecvStep => (QueueWithinWindow(B') /\ QueueOrdered(B'))]_vars

\* C8, amended: the order part holds in every state; no call grows
\* rcv_queue beyond rcv_wnd, so after any call rcv_queue holds at most
\* max(rcv_wnd, what it held before) segments, and it can hold more than
\* rcv_wnd after a recv or input call only when wndsize has lowered rcv_wnd
\* below what was queued.
C8_ReceiveQueueNeverGrowsPast ==
  /\ []QueueOrdered(B)
  /\ [][Len(B'.rcv_queue) <= Max(Len(B.rcv_queue), B'.rcv_wnd)]_vars

\* rcv_queue is exactly full and the next fragment waits in rcv_buf.
C8_Witness == Len(B.rcv_queue) = B.rcv_wnd /\ B.rcv_buf # << >>

(***************************************************************************)
(* C11: well-formed egress.                                                *)
(***************************************************************************)
\* d is a concatenation of whole segments from pos on: each a 24-byte
\* header whose len field counts exactly the payload bytes before the next
\* header or the end.
RECURSIVE Framed(_, _)
Framed(d, pos) ==
  IF pos = Len(d) THEN TRUE
  ELSE IF Len(d) - pos < IKCP_OVERHEAD THEN FALSE
  ELSE LET len == get_u32_le(d, pos + 20)
       IN pos + IKCP_OVERHEAD + len <= Len(d)
          /\ Framed(d, pos + IKCP_OVERHEAD + len)

LenIsData(q) == \A i \in 1..Len(q) : q[i].len = Len(q[i].data)

RtoBounded(k) == k.rx_minrto <= k.rx_rto /\ k.rx_rto <= IKCP_RTO_MAX

\* C12: in every reachable state rx_minrto <= rx_rto <= 60000, after any
\* sequence of RTT samples and of nodelay reconfigurations.
C12_RtoBound == RtoBounded(A)

\* C12, amended: rx_rto never exceeds 60000 and never falls below 30;
\* rx_minrto is 30 with nodelay on and 100 with it off; every call that
\* does not raise rx_minrto keeps rx_minrto <= rx_rto, and every ACK sample
\* establishes it.
C12_RtoBoundUnlessRaised ==
  /\ [](/\ IKCP_RTO_NDL <= A.rx_rto /\ A.rx_rto <= IKCP_RTO_MAX
        /\ A.rx_minrto = IF A.nodelay THEN IKCP_RTO_NDL ELSE IKCP_RTO_MIN)
  /\ [][/\ (A.rx_minrto <= A.rx_rto /\ A'.rx_minrto <= A.rx_minrto)
             => A'.rx_minrto <= A'.rx_rto
        /\ (A'.rx_srtt # A.rx_srtt \/ A'.rx_rttval # A.rx_rttval)
             => RtoBounded(A')]_vars

\* nodelay is on and a sample taken after the long idle time has put rx_rto
\* at its ceiling.
C12_Witness ==
  A.nodelay /\ A.rx_minrto = IKCP_RTO_NDL /\ A.rx_srtt >= LongIdle
    /\ A.rx_rto = IKCP_RTO_MAX

(***************************************************************************)
(* C13: a segment of another conversation.                                 *)
(***************************************************************************)
\* The datagram d with the conv field of its first segment changed.
Foreign(d) == put_u32_le(Conv + 1) \o SubSeq(d, 5, Len(d))

\* Datagrams whose first header is foreign.
ForeignFirst ==
  { Foreign(Ack(0, 1, 1)), Foreign(Push(0, 0, MsgHi)),
    Foreign(Ack(0, 1, 1)) \o Ack(0, 1, 1) }

\* Datagrams with a foreign header behind a segment of the conversation.
ForeignLater ==
  { Ack(0, 1, 1) \o Foreign(Ack(0, 1, 1)),
    Push(0, 0, MsgHi) \o Foreign(Push(1, 0, MsgHi)) }

\* C13: input of a datagram with a header of another conversation returns
\* an error and leaves every field of the control block as it was.
C13_ForeignConversation ==
  \A d \in ForeignFirst \cup ForeignLater :
    LET r == ikcp_input(A, d) IN ~r.ok /\ r.k = A

\* C13, amended: input of such a datagram always returns an error; the
\* block is unchanged when the foreign header is the first of the
\* datagram; when segments of the conversation come before it they have
\* taken effect (rmt_wnd, snd_buf, snd_una, the receive side, the
\* pending-ACK list, probe), while snd_nxt, cwnd, incr and ssthresh
\* are as before.
C13_ForeignFirstUnchanged ==
  /\ \A d \in ForeignFirst :
       LET r == ikcp_input(A, d) IN ~r.ok /\ r.k = A
  /\ \A d \in ForeignLater :
       LET r == ikcp_input(A, d)
       IN /\ ~r.ok
          /\ r.k.snd_nxt = A.snd_nxt /\ r.k.cwnd = A.cwnd
          /\ r.k.incr = A.incr /\ r.k.ssthresh = A.ssthresh
          /\ r.k.rmt_wnd = get_u16_le(d, 6)

\* A block with a segment in flight for which both kinds of datagram are
\* refused, the second kind after it retired that segment.
C13_Witness ==
  /\ A.snd_buf # << >> /\ A.snd_una = 0 /\ A.rmt_wnd = IKCP_WND_RCV
  /\ \E d \in ForeignFirst : ~ikcp_input(A, d).ok
  /\ \E d \in ForeignLater :
       LET r == ikcp_input(A, d) IN ~r.ok /\ r.k.snd_buf = << >> /\ r.k.rmt_wnd = 1

(***************************************************************************)
(* C14: a failed recv.                                                     *)
(***************************************************************************)
\* The head message is incomplete: its first segment announces frg more
\* segments and fewer than frg + 1 are queued.
HeadIncomplete(k) ==
  /\ k.rcv_queue # << >>
  /\ Head(k.rcv_queue).frg > 0
  /\ Len(k.rcv_queue) < Head(k.rcv_queue).frg + 1

\* The bytes of the complete head message: the data of its frg + 1 segments.
HeadMessage(k) == ConcatRange(k.rcv_queue, 1, Head(k.rcv_queue).frg + 1)

RecvMustFail(k, buflen) ==
  \/ k.rcv_queue = << >>
  \/ HeadIncomplete(k)
  \/ Len(HeadMessage(k)) > buflen

\* C14: recv on an empty queue, on an incomplete head message or with a
\* buffer smaller than the next message returns an error and changes
\* nothing; a later recv with a large enough buffer returns that message.
C14_RecvFailureKeepsState ==
  \A buflen \in ReadBufs :
    LET r == ikcp_recv(B, buflen)
    IN RecvMustFail(B, buflen) =>
         /\ ~r.ok /\ r.k = B
         /\ (B.rcv_queue # << >> /\ ~HeadIncomplete(B)) =>
              LET again == ikcp_recv(r.k, Len(HeadMessage(B)))
              IN again.ok /\ again.data = HeadMessage(B)

NeedsTooMany(k, m) == (Len(m) + k.mss - 1) \div k.mss > FRG_MAX

C17_SinkFailureSwallowed ==
  LET r == FlushWithSink(A, FALSE)
  IN /\ ~r.panicked
     /\ ~r.panicked =>
          /\ Len(r.k.snd_buf) >= Len(A.snd_buf)
          /\ \A i \in 1..Len(A.snd_buf) : r.k.snd_buf[i].sn = A.snd_buf[i].sn

(***************************************************************************)
(* C18: time across the wrap of the clock.                                 *)
(***************************************************************************)
\* update at clock reading now runs a flush when the reading is at or past
\* ts_flush in signed 32-bit modular arithmetic (always, on the first call).
FlushDue(k) == ~k.updated \/ diffWrapping(now, k.ts_flush) >= 0

\* C18: every time comparison behaves as a signed 32-bit modular
\* difference: on every update call a transmitted segment is retransmitted
\* exactly when a flush is due and the clock is at or past its resendts,
\* also when the clock has wrapped in between; and update flushes exactly
\* when the clock is at or past ts_flush.
C18_WrapSafeTime ==
  [][(A' # A /\ now' = now /\ sent' = sent) =>
       /\ FlushDue(A) <=> (A'.ts_flush # A.ts_flush \/ ~A.updated)
       /\ \A i \in 1..Len(A.snd_buf) :
            A.snd_buf[i].xmit >= 1 =>
              ( A'.snd_buf[i].xmit = A.snd_buf[i].xmit + 1
                  <=> (FlushDue(A) /\ diffWrapping(now, A.snd_buf[i].resendts) >= 0) )
    ]_vars

(***************************************************************************)
(* C19: the zero-window probe protocol.                                    *)
(***************************************************************************)
\* The segments of datagram d from pos on that carry command cmd.
RECURSIVE CmdCount(_, _, _)
CmdCount(d, pos, cmd) ==
  IF Len(d) - pos < IKCP_OVERHEAD THEN 0
  ELSE (IF d[pos + 5] = cmd THEN 1 ELSE 0)
         + CmdCount(d, pos + IKCP_OVERHEAD + get_u32_le(d, pos + 20), cmd)

\* The same over the datagrams ds[lo..hi], by halves.
RECURSIVE CmdCountAll(_, _, _, _)
CmdCountAll(ds, lo, hi, cmd) ==
  IF lo > hi THEN 0
  ELSE IF lo = hi THEN CmdCount(ds[lo], 0, cmd)
  ELSE CmdCountAll(ds, lo, (lo + hi) \div 2, cmd)
         + CmdCountAll(ds, (lo + hi) \div 2 + 1, hi, cmd)

\* What the step has put on the link A -> B, and on the link B -> A.
EmittedAB(cmd) == CmdCountAll(netAB', Len(netAB) + 1, Len(netAB'), cmd)

EmittedBA(cmd) == CmdCountAll(netBA', Len(netBA) + 1, Len(netBA'), cmd)

\* The step is an update call, with its flush, on A / on B.
StepUpdateA == ~Polled(A) /\ A'.updated /\ A'.current = now /\ now' = now

StepUpdateB == ~Polled(B) /\ B'.updated /\ B'.current = now /\ now' = now

\* While rmt_wnd is 0 nothing is promoted.
NoPromotionAtZero == A.rmt_wnd = 0 => A'.snd_nxt = A.snd_nxt

\* The first flush that sees rmt_wnd = 0 arms the probe and emits no WASK.
ProbeArmed ==
  (StepUpdateA /\ A.rmt_wnd = 0 /\ A.probe_wait = 0) =>
    /\ A'.probe_wait = IKCP_PROBE_INIT
    /\ A'.ts_probe = now + IKCP_PROBE_INIT
    /\ EmittedAB(IKCP_CMD_WASK) = 0

\* An armed probe fires at the first flush at or past ts_probe, with one
\* WASK and the wait grown by half up to the limit; not before.
ProbeFired ==
  (StepUpdateA /\ A.rmt_wnd = 0 /\ A.probe_wait > 0) =>
    IF now >= A.ts_probe
    THEN /\ EmittedAB(IKCP_CMD_WASK) = 1
         /\ A'.probe_wait = Min(A.probe_wait + A.probe_wait \div 2, IKCP_PROBE_LIMIT)
         /\ A'.ts_probe = now + A'.probe_wait
    ELSE /\ EmittedAB(IKCP_CMD_WASK) = 0
         /\ A'.probe_wait = A.probe_wait /\ A'.ts_probe = A.ts_probe

\* B takes in a WASK: its next flush emits a WINS carrying its free window.
WaskTaken ==
  (B' # B /\ netAB' = << >> /\ CmdCountAll(netAB, 1, Len(netAB), IKCP_CMD_WASK) > 0)
    => ProbeHas(B'.probe, IKCP_ASK_TELL)

WinsCarriesWindow ==
  (StepUpdateB /\ ProbeHas(B.probe, IKCP_ASK_TELL)) =>
    /\ EmittedBA(IKCP_CMD_WINS) = 1
    /\ \E j \in Len(netBA) + 1 .. Len(netBA') :
         /\ netBA'[j][5] = IKCP_CMD_WINS
         /\ get_u16_le(netBA'[j], 6) = ikcp_wnd_unused(B)

\* With a window above 0 taken in, the next flush of A resets the probe
\* and promotes again.
ProbeReset ==
  (StepUpdateA /\ A.rmt_wnd > 0) =>
    /\ A'.probe_wait = 0 /\ A'.ts_probe = 0
    /\ EmittedAB(IKCP_CMD_WASK) = 0
    /\ (A.snd_queue # << >> /\ A.nocwnd
          /\ A.snd_nxt < A.snd_una + Min(A.snd_wnd, A.rmt_wnd))
         => A'.snd_nxt > A.snd_nxt

\* B's application has emptied rcv_queue while A holds data back behind a
\* closed window, and the clock has intervals left to run.
Drained ==
  /\ B.rcv_queue = << >> /\ A.rmt_wnd = 0 /\ A.snd_queue # << >>
  /\ injected + 3 <= ProbeTicks

\* C19: while rmt_wnd is 0 A promotes nothing; the first flush at
\* rmt_wnd = 0 arms probe_wait = 7000 and ts_probe = current + 7000 with no
\* WASK; the first flush at or past ts_probe emits exactly one WASK and
\* grows probe_wait by half, capped at 120000; B answers a WASK with a WINS
\* carrying its free window on its next flush; once A has taken in a window
\* above 0 its next flush resets probe_wait and ts_probe and promotes; and
\* under lossless delivery, once B's application has drained rcv_queue, A
\* eventually sends what it held back.
C19_ZeroWindowProbe ==
  /\ [][NoPromotionAtZero /\ ProbeArmed /\ ProbeFired /\ WaskTaken
          /\ WinsCarriesWindow /\ ProbeReset]_vars
  /\ (Drained ~> (A.snd_queue = << >>))

\* A was held back, probed once after the wait, and has sent the second
\* message after B's application read the first.
C19_Witness ==
  /\ now >= IKCP_PROBE_INIT /\ A.snd_queue = << >> /\ A.snd_nxt = IKCP_WND_RCV + 1
  /\ A.probe_wait = 0 /\ A.rmt_wnd > 0 /\ Len(rcvd) = 2

(***************************************************************************)
(* C20: timeout retransmission.                                            *)
(***************************************************************************)
\* The PUSH segments the update call of this step hands to the sink.
PushesOut ==
  LET out == ikcp_update(A, now).out
  IN CmdCountAll(out, 1, Len(out), IKCP_CMD_PUSH)

\* The segments of snd_buf this step has transmitted: the promoted ones and
\* those whose xmit has grown.
SentNow ==
  { i \in 1..Len(A'.snd_buf) :
      i > Len(A.snd_buf) \/ A'.snd_buf[i].xmit = A.snd_buf[i].xmit + 1 }

\* The effective window at the start of a flush of k.
CwndEff(k) ==
  Min(IF k.nocwnd THEN k.snd_wnd ELSE Min(k.cwnd, k.snd_wnd), k.rmt_wnd)

\* The fast-resend threshold is off, or the segment is below it.
BelowFastResend(k, s) == k.fastresend = 0 \/ s.fastack < k.fastresend

\* What an update call does to the transmitted segment at index i.
TimeoutRule(i) ==
  LET s == A.snd_buf[i]
      t == A'.snd_buf[i]
  IN IF FlushDue(A) /\ now >= s.resendts
     THEN /\ t.xmit = s.xmit + 1
          /\ t.rto = s.rto + (IF A.nodelay THEN A.rx_rto \div 2 ELSE A.rx_rto)
          /\ t.rto > s.rto
          /\ t.resendts = now + t.rto
          /\ A'.cwnd = 1 /\ A'.incr = A.mss
          /\ A'.ssthresh = Max(CwndEff(A) \div 2, IKCP_THRESH_MIN)
          /\ A'.xmit > A.xmit
     ELSE BelowFastResend(A, s) => t = s

\* C20: a segment of snd_buf with xmit >= 1 is left alone by every flush
\* with current < resendts while its fastack is below the fast-resend
\* threshold, and is retransmitted by every flush with current >= resendts,
\* hence by the first: that flush adds 1 to its xmit, adds rx_rto (rx_rto/2
\* in nodelay mode) to its rto, which strictly grows, sets resendts =
\* current + rto, and ends with cwnd = 1, incr = mss and ssthresh =
\* max(cwnd_eff/2, 2) for the window computed at the start of the flush;
\* the sink receives exactly the segments transmitted.
C20_TimeoutRetransmission ==
  [][StepUpdateA =>
       /\ Len(A'.snd_buf) >= Len(A.snd_buf)
       /\ \A i \in 1..Len(A.snd_buf) : A.snd_buf[i].xmit >= 1 => TimeoutRule(i)
       /\ PushesOut = Cardinality(SentNow)
    ]_vars

\* A segment has timed out twice and its rto has grown both times.
C20_Witness ==
  /\ A.snd_buf # << >> /\ A.snd_buf[1].xmit >= 3
  /\ A.snd_buf[1].rto > A.rx_rto /\ A.cwnd = 1 /\ A.xmit >= 2

(***************************************************************************)
(* C21: fast retransmission.                                               *)
(***************************************************************************)
\* The sn of the ACK segments of datagram d from pos on.
RECURSIVE AckSns(_, _)
AckSns(d, pos) ==
  IF Len(d) - pos < IKCP_OVERHEAD THEN {}
  ELSE (IF d[pos + 5] = IKCP_CMD_ACK THEN {get_u32_le(d, pos + 12)} ELSE {})
         \cup AckSns(d, pos + IKCP_OVERHEAD + get_u32_le(d, pos + 20))

\* The largest of them.
MaxAck(d) == CHOOSE m \in AckSns(d, 0) : \A n \in AckSns(d, 0) : n <= m

\* The segment of snd_buf that carried sn before the step.
Before(sn) == A.snd_buf[CHOOSE i \in 1..Len(A.snd_buf) : A.snd_buf[i].sn = sn]

\* The step is input of datagram d.
StepInput(d) == injected' = injected + 1 /\ A' = ikcp_input(A, d).k

\* Input of d has counted the ACK once for every segment below the largest
\* acknowledged sn, and for no other.
FastackCounted(d) ==
  \A i \in 1..Len(A'.snd_buf) :
    LET t == A'.snd_buf[i]
    IN t.fastack = Before(t.sn).fastack
         + (IF AckSns(d, 0) # {} /\ MaxAck(d) < A'.snd_nxt /\ t.sn < MaxAck(d)
            THEN 1 ELSE 0)

\* The step is a flush of A that changed the block, called directly or by
\* update.
StepFlushA ==
  /\ A' # A /\ A'.updated /\ now' = now
  /\ injected' = injected /\ A'.snd_wnd = A.snd_wnd

\* Segment s, already sent, is due at the clock reading of this flush; it
\* has reached the fast-resend threshold.
DueNow(s) == s.xmit >= 1 /\ A'.current >= s.resendts

FastNow(s) ==
  s.xmit >= 1 /\ ~DueNow(s) /\ A.fastresend > 0 /\ s.fastack >= A.fastresend

\* What a flush does to the segments that are not due, and how it ends.
FastResendRule ==
  /\ Len(A'.snd_buf) >= Len(A.snd_buf)
  /\ \A i \in 1..Len(A.snd_buf) :
       LET s == A.snd_buf[i]
           t == A'.snd_buf[i]
       IN /\ FastNow(s) =>
               /\ t.xmit = s.xmit + 1 /\ t.fastack = 0
               /\ t.resendts = A'.current + s.rto /\ t.rto = s.rto
          /\ (s.xmit >= 1 /\ ~DueNow(s) /\ ~FastNow(s)) => t = s
  /\ (\E i \in 1..Len(A.snd_buf) : FastNow(A.snd_buf[i])) =>
       IF \E i \in 1..Len(A.snd_buf) : DueNow(A.snd_buf[i])
       THEN A'.cwnd = 1
       ELSE /\ A'.ssthresh = Max((A'.snd_nxt - A'.snd_una) \div 2, IKCP_THRESH_MIN)
            /\ A'.cwnd = A'.ssthresh + A.fastresend

\* C21 as stated: every input call whose datagram contains an ACK adds
\* exactly 1 to the fastack of every snd_buf segment below the largest
\* acknowledged sn (that sn being below snd_nxt); with fastresend = k > 0
\* the next flush retransmits every sent, not yet due segment with fastack
\* >= k, resets its fastack, retransmits no other sent segment that is not
\* due, and ends with ssthresh = max((snd_nxt - snd_una)/2, 2) and cwnd =
\* ssthresh + k, or with cwnd = 1 when a segment timed out in the same
\* flush; with fastresend = 0 no segment is retransmitted before resendts.
C21_FastRetransmission ==
  [][/\ \A d \in FastDatagrams : StepInput(d) => FastackCounted(d)
     /\ StepFlushA => FastResendRule]_vars

\* C21 amended: the same, the count being made by the input calls that
\* return Ok; a call that stops at a segment it rejects has applied the
\* ACKs before it and counts nothing.
C21_FastRetransmissionOnOk ==
  [][/\ \A d \in FastDatagrams :
          StepInput(d) =>
            IF ikcp_input(A, d).ok THEN FastackCounted(d)
            ELSE \A i \in 1..Len(A'.snd_buf) :
                   A'.snd_buf[i].fastack = Before(A'.snd_buf[i].sn).fastack
     /\ StepFlushA => FastResendRule]_vars

\* A segment was resent on its skip count before its timer, next to one
\* that was left alone.
C21_Witness ==
  /\ A.fastresend = FastK /\ Len(A.snd_buf) >= 2 /\ A.xmit = 0
  /\ A.snd_buf[1].xmit = 2 /\ A.snd_buf[1].fastack = 0
  /\ A.snd_buf[2].xmit = 1 /\ A.cwnd = A.ssthresh + FastK

(***************************************************************************)
(* C22: the send window and the numbering of segments.                     *)
(***************************************************************************)
\* How many segments a flush of k may promote.
Room(k) == Max(0, k.snd_una + CwndEff(k) - k.snd_nxt)

\* A flush takes segments off the head of snd_queue while snd_nxt is below
\* snd_una + cwnd_eff and numbers them from snd_nxt on.
PromotionRule ==
  LET n == Len(A'.snd_buf) - Len(A.snd_buf)
  IN /\ n = Min(Len(A.snd_queue), Room(A))
     /\ A'.snd_nxt = A.snd_nxt + n
     /\ A'.snd_queue = SubSeq(A.snd_queue, n + 1, Len(A.snd_queue))
     /\ \A j \in 1..n :
          /\ A'.snd_buf[Len(A.snd_buf) + j].sn = A.snd_nxt + (j - 1)
          /\ A'.snd_buf[Len(A.snd_buf) + j].data = A.snd_queue[j].data

\* What is in flight fits the send window.
WithinSndWnd(k) ==
  k.snd_nxt - k.snd_una <= k.snd_wnd /\ Len(k.snd_buf) <= k.snd_wnd

\* The n-th segment submitted carries sn = n - 1, in snd_buf and, once
\* promoted, from snd_queue.
NumberedInOrder ==
  /\ A.snd_nxt + Len(A.snd_queue) = Len(sent)
  /\ \A i \in 1..Len(A.snd_buf) :
       /\ A.snd_una <= A.snd_buf[i].sn /\ A.snd_buf[i].sn < A.snd_nxt
       /\ A.snd_buf[i].data = sent[A.snd_buf[i].sn + 1]
       /\ i > 1 => A.snd_buf[i - 1].sn < A.snd_buf[i].sn
  /\ \A j \in 1..Len(A.snd_queue) : A.snd_queue[j].data = sent[A.snd_nxt + j]

\* C22: a flush promotes only while snd_nxt < snd_una + min(snd_wnd,
\* rmt_wnd), limited by cwnd unless nocwnd is set, always from the head of
\* snd_queue, giving the segment sn = snd_nxt before incrementing it; so
\* snd_nxt - snd_una <= snd_wnd and |snd_buf| <= snd_wnd hold initially and
\* after every step that does not lower snd_wnd, and the segments carry
\* consecutive sequence numbers in the order send submitted them.
C22_SendWindowFifo ==
  /\ WithinSndWnd(A)
  /\ [][/\ StepFlushA => PromotionRule
        /\ (WithinSndWnd(A) /\ A'.snd_wnd >= A.snd_wnd) => WithinSndWnd(A')
        /\ NumberedInOrder']_vars

\* The send window holds a queued segment back, then lets it go once the
\* first one is acknowledged.
C22_Witness ==
  /\ A.snd_wnd = SmallWnd /\ A.nocwnd /\ A.snd_una = 1
  /\ A.snd_nxt = SmallWnd + 1 /\ Len(A.snd_buf) = SmallWnd

(***************************************************************************)
(* C23: generation of acknowledgements.                                    *)
(***************************************************************************)
\* The (sn, ts) of the PUSH segments of datagram d from pos on whose sn is
\* below edge, in the order of the datagram.
RECURSIVE PushEntries(_, _, _)
PushEntries(d, pos, edge) ==
  IF Len(d) - pos < IKCP_OVERHEAD THEN << >>
  ELSE LET sn == get_u32_le(d, pos + 12)
           entry == IF d[pos + 5] = IKCP_CMD_PUSH /\ sn < edge
                    THEN << << sn, get_u32_le(d, pos + 8) >> >> ELSE << >>
           rest == PushEntries(d, pos + IKCP_OVERHEAD + get_u32_le(d, pos + 20), edge)
       IN IF Len(rest) >= 0 THEN entry \o rest ELSE << >>

\* The (sn, ts, una, wnd) of the ACK segments of datagram d from pos on.
RECURSIVE AckFields(_, _)
AckFields(d, pos) ==
  IF Len(d) - pos < IKCP_OVERHEAD THEN << >>
  ELSE LET this == IF d[pos + 5] = IKCP_CMD_ACK
                   THEN << << get_u32_le(d, pos + 12), get_u32_le(d, pos + 8),
                              get_u32_le(d, pos + 16), get_u16_le(d, pos + 6) >> >>
                   ELSE << >>
           rest == AckFields(d, pos + IKCP_OVERHEAD + get_u32_le(d, pos + 20))
       IN IF Len(rest) >= 0 THEN this \o rest ELSE << >>

\* The same over the datagrams ds[lo..hi], in order.
RECURSIVE AckFieldsAll(_, _, _)
AckFieldsAll(ds, lo, hi) ==
  IF lo > hi THEN << >>
  ELSE IF lo = hi THEN AckFields(ds[lo], 0)
  ELSE AckFieldsAll(ds, lo, (lo + hi) \div 2)
         \o AckFieldsAll(ds, (lo + hi) \div 2 + 1, hi)

\* Input of d appends one entry per PUSH below the edge of the window, in
\* order, and none for a PUSH at or beyond it.  (No datagram here carries a
\* PUSH that an earlier segment of the same datagram brings into the
\* window: the edge before the call and after it select the same segments.)
AcksQueued(d) ==
  /\ B'.acklist = B.acklist \o PushEntries(d, 0, B.rcv_nxt + B.rcv_wnd)
  /\ PushEntries(d, 0, B.rcv_nxt + B.rcv_wnd)
       = PushEntries(d, 0, B'.rcv_nxt + B'.rcv_wnd)

\* The step is an update call on B.
StepPollB ==
  /\ netAB' = netAB /\ injected' = injected /\ rcvd' = rcvd /\ now' = now
  /\ B'.rcv_wnd = B.rcv_wnd /\ B'.updated

\* The flush an update runs writes the pending list out and empties it; an
\* update that runs no flush writes nothing and keeps the list.
AcksFlushed ==
  LET out == ikcp_update(B, now).out
      wnd == Max(0, B.rcv_wnd - Len(B.rcv_queue))
  IN IF FlushDue(B)
     THEN /\ AckFieldsAll(out, 1, Len(out))
               = [i \in 1..Len(B.acklist) |->
                    << B.acklist[i][1], B.acklist[i][2], B.rcv_nxt, wnd >>]
          /\ B'.acklist = << >>
     ELSE out = << >> /\ B'.acklist = B.acklist

\* C23: every PUSH input parses with sn < rcv_nxt + rcv_wnd, new, duplicate
\* or already delivered, appends exactly one (sn, ts) to the pending-ACK
\* list, and a PUSH at or beyond rcv_nxt + rcv_wnd appends none; the next
\* flush emits exactly one ACK segment per entry, in list order, with that
\* sn and ts, una = rcv_nxt and wnd = max(0, rcv_wnd - |rcv_queue|), and
\* leaves the list empty.
C23_AckGeneration ==
  [][/\ \A d \in netAB : (netAB' = netAB \ {d}) => AcksQueued(d)
     /\ StepPollB => AcksFlushed]_vars

(***************************************************************************)
(* C24: the congestion window against the peer's window.                   *)
(***************************************************************************)
\* The wnd field of the last segment of datagram d from pos on.
RECURSIVE LastWnd(_, _)
LastWnd(d, pos) ==
  LET next == pos + IKCP_OVERHEAD + get_u32_le(d, pos + 20)
  IN IF Len(d) - next < IKCP_OVERHEAD THEN get_u16_le(d, pos + 6)
     ELSE LastWnd(d, next)

\* C24: after an input call during which snd_una advanced, cwnd <= rmt_wnd,
\* rmt_wnd being the wnd field of the last segment of the call, also when
\* the peer's window has shrunk below the cwnd reached before; and once a
\* flush has run, cwnd >= 1.
C24_CwndCap ==
  /\ [](A.updated => A.cwnd >= 1)
  /\ [][\A d \in FastDatagrams :
          (StepInput(d) /\ ikcp_input(A, d).ok /\ A'.snd_una > A.snd_una) =>
            /\ A'.rmt_wnd = LastWnd(d, 0)
            /\ A'.cwnd <= A'.rmt_wnd]_vars

(***************************************************************************)
(* C25: when update flushes.                                               *)
(***************************************************************************)
\* The step is an update call at a reading the block has not seen.
StepTickA ==
  /\ now' = now /\ sent' = sent /\ A'.current = now /\ A'.updated
  /\ ~A.updated \/ A.current # now

\* ts_flush after the first-call initialisation and the resynchronisation.
TsSynced ==
  LET ts0 == IF ~A.updated THEN now ELSE A.ts_flush
  IN IF now - ts0 > SLAP_MAX \/ now - ts0 < -SLAP_MAX THEN now ELSE ts0

\* The update of this step ran flush, with ts_flush moved on first; it ran
\* none, wrote nothing and touched nothing but the clock fields.
Flushed ==
  LET ts == IF now >= TsSynced + A.interval THEN now + A.interval
            ELSE TsSynced + A.interval
      r == ikcp_flush([A EXCEPT !.current = now, !.updated = TRUE, !.ts_flush = ts])
  IN /\ A' = r.k
     /\ ikcp_update(A, now).out = r.out
     /\ now < A'.ts_flush /\ A'.ts_flush <= now + A.interval

NotFlushed ==
  /\ A' = [A EXCEPT !.current = now, !.updated = TRUE, !.ts_flush = TsSynced]
  /\ ikcp_update(A, now).out = << >>

\* flush before the first update changes nothing and writes nothing.
FlushNeedsUpdate == ~A.updated => ikcp_flush(A) = [k |-> A, out |-> << >>]

\* C25 as stated: update flushes exactly when current - ts_flush >= 0 after
\* the first-call initialisation and the resynchronisation; right after
\* such an update current < ts_flush <= current + interval, and an update
\* with any reading earlier than ts_flush runs no flush and writes
\* nothing; flush before the first update changes nothing.
C25_TickScheduling ==
  /\ []FlushNeedsUpdate
  /\ [][StepTickA =>
          /\ IF now - TsSynced >= 0 THEN Flushed ELSE NotFlushed
          /\ (A.updated /\ now < A.ts_flush) => NotFlushed]_vars

\* C25 amended: the same, the update that runs no flush being one with a
\* reading earlier than ts_flush by no more than 10000 ms; a reading
\* further back resynchronises ts_flush and flushes.
C25_TickSchedulingWithinSlap ==
  /\ []FlushNeedsUpdate
  /\ [][StepTickA =>
          /\ IF now - TsSynced >= 0 THEN Flushed ELSE NotFlushed
          /\ (A.updated /\ now < A.ts_flush /\ A.ts_flush - now <= SLAP_MAX)
               => NotFlushed
          /\ (A.updated /\ A.ts_flush - now > SLAP_MAX) => Flushed]_vars

\* update has flushed at a reading far behind the one at which the segment
\* in flight was sent.
C25_Witness ==
  /\ A.updated /\ A.current = now /\ A.ts_flush = now + A.interval
  /\ A.snd_buf # << >> /\ A.snd_buf[1].ts > now + SLAP_MAX

(***************************************************************************)
(* C26: framing of the datagrams given to input.                           *)
(***************************************************************************)
\* The segments of d from pos on all carry conv and a known cmd.
RECURSIVE SegmentsOf(_, _, _)
SegmentsOf(d, pos, conv) ==
  IF Len(d) - pos < IKCP_OVERHEAD THEN TRUE
  ELSE /\ get_u32_le(d, pos) = conv
       /\ ValidCmd(d[pos + 5])
       /\ SegmentsOf(d, pos + IKCP_OVERHEAD + get_u32_le(d, pos + 20), conv)

\* The sn of the segment headers of d from pos on.
RECURSIVE WireSns(_, _)
WireSns(d, pos) ==
  IF Len(d) - pos < IKCP_OVERHEAD THEN {}
  ELSE {get_u32_le(d, pos + 12)}
         \cup WireSns(d, pos + IKCP_OVERHEAD + get_u32_le(d, pos + 20))

\* C26: for a datagram that is a concatenation of well-formed segments of
\* the block's conv, input returns Ok with the full length of the datagram,
\* having advanced past every header and its len payload bytes whatever
\* the cmd and whether a PUSH is accepted, a duplicate or beyond the
\* window; every acknowledgement it queues is for the sn of a segment
\* header of the datagram, never for payload bytes read as a header.
C26_IngressFraming ==
  \A d \in netAB :
    (Len(d) >= IKCP_OVERHEAD /\ Framed(d, 0) /\ SegmentsOf(d, 0, B.conv)) =>
      LET r == ikcp_input(B, d)
      IN /\ r.ok
         /\ r.val = Len(d)
         /\ \A i \in 1..Len(r.k.acklist) :
              i > Len(B.acklist) => r.k.acklist[i][1] \in WireSns(d, 0)

(***************************************************************************)
(* C27: every message that send accepts can be delivered.                  *)
(***************************************************************************)
\* q holds consecutive fragments of one message and not its last one.
OneIncompleteMessage(q) ==
  /\ q # << >>
  /\ \A i \in 1..Len(q) : q[i].frg = q[1].frg - (i - 1)
  /\ q[Len(q)].frg > 0

\* rcv_queue is full of fragments of one incomplete message: recv fails,
\* and promotion from rcv_buf, which asks for room in rcv_queue, is closed.
Wedged ==
  /\ Len(B.rcv_queue) >= B.rcv_wnd
  /\ OneIncompleteMessage(B.rcv_queue)
  /\ ~ikcp_recv(B, RcvBufLen).ok
  /\ MoveToRcvQueue(B) = B

\* C27: every message that send accepts, of 1 to 255 fragments, also of
\* more fragments than the peer's rcv_wnd, is deliverable: the receiver
\* never reaches a state in which rcv_queue is full of fragments of one
\* incomplete message, recv fails and nothing more can be promoted from
\* rcv_buf.
C27_EveryMessageDeliverable == ~Wedged

=============================================================================
